---- MODULE Spec2Model ----
(***************************************************************************)
(* A model of ppTranslator: the slide transformation of                    *)
(* src/ppt_xml_translator.py (PPTXMLTranslator) and the translation client *)
(* of src/ollama_service/translate_service.py (OllamaTranslator).          *)
(*                                                                         *)
(* Texts are sequences of one-character strings.  XML attribute values are *)
(* records [present, numeric, val]: an absent attribute, an attribute that *)
(* int() parses (val is the integer), or one that int() rejects with a     *)
(* ValueError (such as sz="quarter" on a placeholder).                     *)
(***************************************************************************)
EXTENDS Integers, Sequences, FiniteSets, TLC

VARIABLES
    pc,                   \* position of the operation that is running
    current_size,         \* get_next_smaller_size: argument, in 1/100 pt
    next_size,            \* get_next_smaller_size: result, in points
    original_text,        \* re-segmentation: the block's text
    translated_text,      \* re-segmentation: what the translator returned
    translated_lines,     \* re-segmentation: the lines cut from translated_text
    p_element,            \* get_paragraph_style: the paragraph it is given
    style,                \* get_paragraph_style: the style it returns
    translation,          \* create_translated_paragraphs: the text it is given
    paragraphs,           \* create_translated_paragraphs: what it returns
    input_file,           \* translate_slide: the slide in the input directory
    slide_file,           \* translate_slide: the slide at slide_path
    root,                 \* translate_slide: the parsed tree
    text_elements,        \* translate_slide: what find_text_elements returned
    elem_i,               \* translate_slide: the block the loop is at
    calls,                \* translate_slide: the translator's calls and replies
    texts,                \* batch_translate: the texts it is given
    from_lang,            \* batch_translate: the source language
    to_lang,              \* batch_translate: the target language
    cleaned_translations, \* batch_translate: the list it is building
    single_translations,  \* batch_translate: the list of the except branch
    batch_result,         \* batch_translate: the list it returned
    translate_text,       \* translate: the text it is given
    translate_outcome,    \* translate: what became of its request
    translate_result,     \* translate: the string it returned
    input_dir,            \* translate_pptx: the slide files of input_dir
    output_dir,           \* translate_pptx: the slide files of output_dir
    slides,               \* translate_pptx: the listing of the slides
    slide_no,             \* translate_pptx: the loop's position in slides
    progress,             \* translate_pptx: the progress_callback calls
    written,              \* history: the slides written, in order
    slide_calls,          \* history: the translate calls of each slide
    temp_dir,             \* translate_pptx_file: the extraction directory
    temp_output_dir,      \* translate_pptx_file: the translated directory
    output_pptx,          \* translate_pptx_file: the file at the output path
    enabled,              \* PPTTranslatorUI: the window takes input
    model_select,         \* PPTTranslatorUI: the model chosen in the combo box
    input_path,           \* PPTTranslatorUI: text of the input path field
    output_path,          \* PPTTranslatorUI: text of the output path field
    worker,               \* TranslationWorker: where its run is
    emitted,              \* history: the signals the worker has emitted
    pending               \* emitted signals whose slot has not run yet

sizeVars == <<current_size, next_size>>

resegVars == <<original_text, translated_text, translated_lines>>

styleVars == <<p_element, style, translation, paragraphs>>

slideVars == <<input_file, slide_file, root, text_elements, elem_i, calls>>

batchVars ==
    <<texts, from_lang, to_lang, cleaned_translations, single_translations,
      batch_result>>

translateVars == <<translate_text, translate_outcome, translate_result>>

pptxVars ==
    <<input_dir, output_dir, slides, slide_no, progress, written,
      slide_calls>>

fileVars == <<temp_dir, temp_output_dir, output_pptx>>

uiVars ==
    <<enabled, model_select, input_path, output_path, worker, emitted,
      pending>>

vars ==
    <<pc, sizeVars, resegVars, styleVars, slideVars, batchVars,
      translateVars, pptxVars, fileVars, uiVars>>

\* the values of the variables an operation does not own
IdleSize == current_size = 0 /\ next_size = 0

IdleReseg ==
    original_text = <<>> /\ translated_text = <<>> /\ translated_lines = <<>>

IdleStyle ==
    /\ p_element = <<>>
    /\ style = <<>>
    /\ translation = <<>>
    /\ paragraphs = <<>>

IdleSlide ==
    /\ input_file = <<>>
    /\ slide_file = <<>>
    /\ root = <<>>
    /\ text_elements = <<>>
    /\ elem_i = 0
    /\ calls = <<>>

IdleTranslate ==
    /\ translate_text = <<>>
    /\ translate_outcome = <<>>
    /\ translate_result = <<>>

IdlePptx ==
    /\ input_dir = <<>>
    /\ output_dir = <<>>
    /\ slides = <<>>
    /\ slide_no = 0
    /\ progress = <<>>
    /\ written = <<>>
    /\ slide_calls = <<>>

IdleFile ==
    /\ temp_dir = "none"
    /\ temp_output_dir = "none"
    /\ output_pptx = [kind |-> "absent", content |-> <<>>]

IdleUi ==
    /\ enabled = TRUE
    /\ model_select = ""
    /\ input_path = ""
    /\ output_path = ""
    /\ worker = [state |-> "none", total |-> 0, done |-> 0]
    /\ emitted = <<>>
    /\ pending = <<>>

IdleBatch ==
    /\ texts = <<>>
    /\ from_lang = ""
    /\ to_lang = ""
    /\ cleaned_translations = <<>>
    /\ single_translations = <<>>
    /\ batch_result = <<>>

\* for each operation, the variables of the other operations and their
\* idle values
exceptSize ==
    <<resegVars,
      styleVars,
      slideVars,
      batchVars,
      translateVars,
      pptxVars,
      fileVars,
      uiVars>>

IdleExceptSize ==
    /\ IdleReseg
    /\ IdleStyle
    /\ IdleSlide
    /\ IdleBatch
    /\ IdleTranslate
    /\ IdlePptx
    /\ IdleFile
    /\ IdleUi

exceptReseg ==
    <<sizeVars,
      styleVars,
      slideVars,
      batchVars,
      translateVars,
      pptxVars,
      fileVars,
      uiVars>>

IdleExceptReseg ==
    /\ IdleSize
    /\ IdleStyle
    /\ IdleSlide
    /\ IdleBatch
    /\ IdleTranslate
    /\ IdlePptx
    /\ IdleFile
    /\ IdleUi

exceptStyle ==
    <<sizeVars,
      resegVars,
      slideVars,
      batchVars,
      translateVars,
      pptxVars,
      fileVars,
      uiVars>>

IdleExceptStyle ==
    /\ IdleSize
    /\ IdleReseg
    /\ IdleSlide
    /\ IdleBatch
    /\ IdleTranslate
    /\ IdlePptx
    /\ IdleFile
    /\ IdleUi

exceptSlide ==
    <<sizeVars,
      resegVars,
      styleVars,
      batchVars,
      translateVars,
      pptxVars,
      fileVars,
      uiVars>>

IdleExceptSlide ==
    /\ IdleSize
    /\ IdleReseg
    /\ IdleStyle
    /\ IdleBatch
    /\ IdleTranslate
    /\ IdlePptx
    /\ IdleFile
    /\ IdleUi

exceptBatch ==
    <<sizeVars,
      resegVars,
      styleVars,
      slideVars,
      translateVars,
      pptxVars,
      fileVars,
      uiVars>>

IdleExceptBatch ==
    /\ IdleSize
    /\ IdleReseg
    /\ IdleStyle
    /\ IdleSlide
    /\ IdleTranslate
    /\ IdlePptx
    /\ IdleFile
    /\ IdleUi

exceptTranslate ==
    <<sizeVars,
      resegVars,
      styleVars,
      slideVars,
      batchVars,
      pptxVars,
      fileVars,
      uiVars>>

IdleExceptTranslate ==
    /\ IdleSize
    /\ IdleReseg
    /\ IdleStyle
    /\ IdleSlide
    /\ IdleBatch
    /\ IdlePptx
    /\ IdleFile
    /\ IdleUi

exceptPptx ==
    <<sizeVars,
      resegVars,
      styleVars,
      slideVars,
      batchVars,
      translateVars,
      fileVars,
      uiVars>>

IdleExceptPptx ==
    /\ IdleSize
    /\ IdleReseg
    /\ IdleStyle
    /\ IdleSlide
    /\ IdleBatch
    /\ IdleTranslate
    /\ IdleFile
    /\ IdleUi

exceptFile ==
    <<sizeVars,
      resegVars,
      styleVars,
      slideVars,
      batchVars,
      translateVars,
      pptxVars,
      uiVars>>

IdleExceptFile ==
    /\ IdleSize
    /\ IdleReseg
    /\ IdleStyle
    /\ IdleSlide
    /\ IdleBatch
    /\ IdleTranslate
    /\ IdlePptx
    /\ IdleUi

exceptUi ==
    <<sizeVars,
      resegVars,
      styleVars,
      slideVars,
      batchVars,
      translateVars,
      pptxVars,
      fileVars>>

IdleExceptUi ==
    /\ IdleSize
    /\ IdleReseg
    /\ IdleStyle
    /\ IdleSlide
    /\ IdleBatch
    /\ IdleTranslate
    /\ IdlePptx
    /\ IdleFile

----------------------------------------------------------------------------
(* Python built-ins on str, as the code uses them *)

Whitespace == {" ", "\n", "\t"}

Min(a, b) == IF a <= b THEN a ELSE b

Max(a, b) == IF a >= b THEN a ELSE b

\* s[a:b] for 0 <= a and 0 <= b (positions are 0-based, b is exclusive)
Slice(s, a, b) == SubSeq(s, a + 1, Min(b, Len(s)))

\* s.find(c, start): 0-based position of the first c at or after start, or -1
Find(s, c, start) ==
    LET hits == {i \in (start + 1)..Len(s) : s[i] = c}
    IN  IF hits = {} THEN -1
        ELSE (CHOOSE i \in hits : \A j \in hits : i <= j) - 1

\* s.strip()
Strip(s) ==
    LET keep == {i \in 1..Len(s) : s[i] \notin Whitespace}
    IN  IF keep = {} THEN <<>>
        ELSE SubSeq(s, CHOOSE i \in keep : \A j \in keep : i <= j,
                       CHOOSE i \in keep : \A j \in keep : i >= j)

\* s.split('\n'): always at least one piece
RECURSIVE Split(_)
Split(s) ==
    LET nl == Find(s, "\n", 0)
    IN  IF nl = -1 THEN <<s>>
        ELSE <<Slice(s, 0, nl)>> \o Split(Slice(s, nl + 1, Len(s)))

\* sep.join(pieces)
RECURSIVE Join(_, _)
Join(pieces, sep) ==
    IF pieces = <<>> THEN <<>>
    ELSE IF Len(pieces) = 1 THEN pieces[1]
    ELSE pieces[1] \o sep \o Join(Tail(pieces), sep)

\* ''.join(pieces)
RECURSIVE Concat(_)
Concat(pieces) ==
    IF pieces = <<>> THEN <<>> ELSE pieces[1] \o Concat(Tail(pieces))

\* the text without its whitespace characters
NonBlank(s) == SelectSeq(s, LAMBDA c : c \notin Whitespace)

\* every text of at most n characters of the alphabet
StringsUpTo(alphabet, n) == UNION {[1..k -> alphabet] : k \in 0..n}

----------------------------------------------------------------------------
(* Font-size ladder: PPTXMLTranslator.__init__ *)

ppt_font_sizes ==
    <<72, 48, 44, 40, 36, 32, 28, 24, 20, 18, 16, 14, 12, 11, 10, 9, 8, 7, 6, 5>>

min_font_size == 5

LadderValues == {ppt_font_sizes[i] : i \in 1..Len(ppt_font_sizes)}

\* round(x) of Python 3 for x = n/d, d > 0: to nearest, ties to the even integer
RoundHalfEven(n, d) ==
    LET q == n \div d
        r == n % d
    IN  IF 2 * r > d \/ (2 * r = d /\ q % 2 = 1) THEN q + 1 ELSE q

\* the defect "the matching ladder entry is returned, not a smaller one"
get_next_smaller_size_nostep(current) ==
    LET halves == RoundHalfEven(current, 50)
        at == {i \in 1..Len(ppt_font_sizes) : halves >= 2 * ppt_font_sizes[i]}
    IN  IF at = {} THEN min_font_size
        ELSE ppt_font_sizes[CHOOSE k \in at : \A j \in at : k <= j]

\* A point size is carried as the integer number of 1/100 pt it was computed
\* from (size_to_point divides by 100).  rounded_size = round(p * 2) / 2 is
\* kept as the count of half points, so `rounded_size >= std_size` reads
\* halves >= 2 * std_size.  The value is in points.
get_next_smaller_size(current) ==
    LET halves == RoundHalfEven(current, 50)
        at == {i \in 1..Len(ppt_font_sizes) : halves >= 2 * ppt_font_sizes[i]}
    IN  IF at = {} THEN min_font_size
        ELSE LET i == CHOOSE k \in at : \A j \in at : k <= j
             IN  IF i + 2 <= Len(ppt_font_sizes)
                 THEN ppt_font_sizes[i + 2]
                 ELSE min_font_size

\* size_to_point: size / 100.  The quotient is carried as the number of
\* 1/100 pt it was computed from; what binary64 loses shows in point_to_size.
size_to_point(size) == size

\* The sizes s >= 0 with int((s / 100) * 100) = s - 1 in binary64.  The list
\* is complete for 0 <= s <= 600; no multiple of 50 up to 400000 is lossy.
FloatLossy ==
    {29, 57, 58, 113, 114, 115, 116, 201, 203, 205, 207, 226, 228, 230, 232,
     251, 253, 255, 402, 406, 410, 414, 427, 431, 435, 439, 452, 456, 460,
     464, 477, 481, 485, 489, 502, 506, 510}

\* point_to_size: int(point_size * 100), the point size given in 1/100 pt
point_to_size(point_size) ==
    IF point_size \in FloatLossy THEN point_size - 1 ELSE point_size

\* the defect "an arbitrary shrink": four fifths of the size, off the ladder
adjust_font_size_scaled(size, is_translation) ==
    IF is_translation THEN (size * 64) \div 100 ELSE (size * 8) \div 10

adjust_font_size(size, is_translation) ==
    LET point_size == size_to_point(size)
        once == get_next_smaller_size(point_size)
        new_point_size ==
            IF is_translation THEN get_next_smaller_size(100 * once) ELSE once
    IN  point_to_size(100 * Max(new_point_size, min_font_size))

----------------------------------------------------------------------------
(* XML attributes and the elements of a slide                              *)

NoAttr == [present |-> FALSE, numeric |-> FALSE, val |-> 0]

Num(n) == [present |-> TRUE, numeric |-> TRUE, val |-> n]

\* a value int() rejects, such as sz="quarter"
NonNumeric == [present |-> TRUE, numeric |-> FALSE, val |-> 0]

\* adjust_element_font_size for one attribute of the element: a value that
\* parses is replaced, a ValueError leaves it, an absent attribute stays absent
adjust_attr(attr, is_translation) ==
    IF attr.present /\ attr.numeric
    THEN Num(adjust_font_size(attr.val, is_translation))
    ELSE attr

\* a:r with its a:rPr (rPr says whether the element is there) and the text
\* of its a:t ("" also stands for a run without a:t)
Run(rPr, sz, kern, spc, baseline, text) ==
    [rPr |-> rPr, sz |-> sz, kern |-> kern, spc |-> spc,
     baseline |-> baseline, text |-> text]

\* a:p with its runs, the sz of a:pPr/a:defRPr and the sz of a:endParaRPr
Para(runs, def_sz, end_sz) ==
    [runs |-> runs, def_sz |-> def_sz, end_sz |-> end_sz]

\* The text body of a shape as _set_shape_auto_fit reads it: ns is the
\* namespace prefix of its txBody element, bodyPr says whether a:bodyPr is
\* there, fit lists the auto-fit markers under a:bodyPr in document order,
\* attrs maps the names of a:bodyPr's attributes to their values.
Body(ns, bodyPr, fit, attrs) ==
    [ns |-> ns, bodyPr |-> bodyPr, fit |-> fit, attrs |-> attrs]

\* p:sp: the a:p elements below it in document order (all children of its
\* text body), the sz of its p:ph placeholder, and the text body
Shape(paras, ph_sz, body) == [paras |-> paras, ph_sz |-> ph_sz, body |-> body]

----------------------------------------------------------------------------
(* Style Resolver: get_paragraph_style                                     *)

\* step 1 from the k-th run on: the first run whose rPr has an sz that
\* parses; -1 when the loop runs out
RECURSIVE run_size_from(_, _)
run_size_from(runs, k) ==
    IF k > Len(runs) THEN -1
    ELSE IF runs[k].rPr /\ runs[k].sz.present /\ runs[k].sz.numeric
         THEN k
         ELSE run_size_from(runs, k + 1)

\* the defect "the nominal 18 points are handed on unreduced"
default_style_size_nominal == point_to_size(100 * 18)

\* the fallback at the end: the first ladder entry <= 14, else the floor
default_style_size ==
    LET at == {i \in 1..Len(ppt_font_sizes) : ppt_font_sizes[i] <= 14}
    IN  IF at # {}
        THEN point_to_size(100 * ppt_font_sizes[CHOOSE k \in at : \A j \in at : k <= j])
        ELSE point_to_size(100 * min_font_size)

\* the defect "the paragraph default is asked before the runs"
get_paragraph_style_default_first(p) ==
    LET k == run_size_from(p.runs, 1)
    IN  IF p.def_sz.present /\ p.def_sz.numeric
        THEN [font_size |-> point_to_size(size_to_point(p.def_sz.val))]
        ELSE IF k # -1
        THEN [font_size |-> point_to_size(size_to_point(p.runs[k].sz.val))]
        ELSE IF p.end_sz.present /\ p.end_sz.numeric
        THEN [font_size |-> point_to_size(size_to_point(p.end_sz.val))]
        ELSE [font_size |-> default_style_size]

get_paragraph_style(p) ==
    LET k == run_size_from(p.runs, 1)
    IN  IF k # -1
        THEN [font_size |-> point_to_size(size_to_point(p.runs[k].sz.val))]
        ELSE IF p.def_sz.present /\ p.def_sz.numeric
        THEN [font_size |-> point_to_size(size_to_point(p.def_sz.val))]
        ELSE IF p.end_sz.present /\ p.end_sz.numeric
        THEN [font_size |-> point_to_size(size_to_point(p.end_sz.val))]
        ELSE [font_size |-> default_style_size]

----------------------------------------------------------------------------
(* Line re-segmentation: translate_slide, the block between the translator *)
(* call and create_translated_paragraphs                                   *)

Punctuation == <<".", ",", ":", ";", "?", "!">>

\* line_breaks: the running total of the lengths of the original's lines
RECURSIVE line_breaks_from(_, _)
line_breaks_from(lines, current_pos) ==
    IF lines = <<>> THEN <<>>
    ELSE <<current_pos + Len(lines[1])>>
         \o line_breaks_from(Tail(lines), current_pos + Len(lines[1]))

line_breaks(original) == line_breaks_from(Split(original), 0)

\* int(break_pos * ratio) with ratio = total_len / len(original_text) in
\* binary64: the quotient is rounded before it is multiplied, and for the
\* triples <<len(original_text), total_len, break_pos>> listed here the
\* product falls just short of the exact integer.  The list is complete for
\* len(original_text) <= 16 and total_len <= 40.
FloatShort == {<<11, 15, 11>>, <<11, 30, 11>>, <<13, 15, 13>>, <<13, 30, 13>>}

translated_break(break_pos, total_len, original_len) ==
    IF <<original_len, total_len, break_pos>> \in FloatShort
    THEN (break_pos * total_len) \div original_len - 1
    ELSE (break_pos * total_len) \div original_len

\* the loop `for punct in '.,:;?!'` from its k-th character on
RECURSIVE punct_scan(_, _, _, _)
punct_scan(text, start, k, punct_pos) ==
    IF k > Len(Punctuation) THEN punct_pos
    ELSE LET pos == Find(text, Punctuation[k], start)
         IN  punct_scan(text, start, k + 1,
                        IF pos # -1 /\ (punct_pos = -1 \/ pos < punct_pos)
                        THEN pos + 1 ELSE punct_pos)

\* the position the candidate is moved to
snap_break(text, translated_break_pos) ==
    LET space_pos == Find(text, " ", translated_break_pos)
        punct_pos == punct_scan(text, translated_break_pos, 1, -1)
    IN  IF space_pos # -1 /\ punct_pos # -1 THEN Min(space_pos, punct_pos)
        ELSE IF space_pos # -1 THEN space_pos
        ELSE IF punct_pos # -1 THEN punct_pos
        ELSE translated_break_pos

\* the defect "the line is cut one character late"
cut_line_late(text, last_pos, break_pos) ==
    Strip(Slice(text, last_pos + 1, break_pos))

\* the cut of one line: translated_text[last_pos:break_pos].strip()
cut_line(text, last_pos, break_pos) == Strip(Slice(text, last_pos, break_pos))

\* the loop `for break_pos in line_breaks` from its k-th entry on; the value
\* is the pair of last_pos and translated_lines the loop ends with
RECURSIVE reseg_loop(_, _, _, _, _, _)
reseg_loop(text, breaks, k, original_len, last_pos, lines) ==
    IF k > Len(breaks) THEN [last_pos |-> last_pos, lines |-> lines]
    ELSE LET tb == translated_break(breaks[k], Len(text), original_len)
         IN  IF tb < Len(text)
             THEN LET break_pos == snap_break(text, tb)
                      line == cut_line(text, last_pos, break_pos)
                  IN  reseg_loop(text, breaks, k + 1, original_len, break_pos,
                                 IF line # <<>> THEN Append(lines, line)
                                 ELSE lines)
             ELSE reseg_loop(text, breaks, k + 1, original_len, last_pos, lines)

\* translated_lines as translate_slide leaves it
resegment(original, translated) ==
    LET r == reseg_loop(translated, line_breaks(original), 1, Len(original),
                        0, <<>>)
        last_line == cut_line(translated, r.last_pos, Len(translated))
    IN  IF r.last_pos < Len(translated) /\ last_line # <<>>
        THEN Append(r.lines, last_line)
        ELSE r.lines

\* the positions where the loop cut, in order (read off the same loop)
RECURSIVE break_positions(_, _, _, _)
break_positions(text, breaks, k, original_len) ==
    IF k > Len(breaks) THEN <<>>
    ELSE LET tb == translated_break(breaks[k], Len(text), original_len)
         IN  (IF tb < Len(text) THEN <<snap_break(text, tb)>> ELSE <<>>)
             \o break_positions(text, breaks, k + 1, original_len)

----------------------------------------------------------------------------
(* translate_slide, first pass: every element that has an sz attribute     *)

adjust_all_run(r) ==
    IF r.rPr THEN [r EXCEPT !.sz = adjust_attr(r.sz, FALSE)] ELSE r

adjust_all_para(p) ==
    [p EXCEPT !.runs = [i \in 1..Len(p.runs) |-> adjust_all_run(p.runs[i])],
              !.def_sz = adjust_attr(p.def_sz, FALSE),
              !.end_sz = adjust_attr(p.end_sz, FALSE)]

adjust_all_shape(sp) ==
    [sp EXCEPT !.paras = [i \in 1..Len(sp.paras) |-> adjust_all_para(sp.paras[i])],
               !.ph_sz = adjust_attr(sp.ph_sz, FALSE)]

\* root.findall(".//*[@sz]") and adjust_element_font_size on each
adjust_size_elements(tree) ==
    [i \in 1..Len(tree) |-> adjust_all_shape(tree[i])]

----------------------------------------------------------------------------
(* Text Block Extractor: find_text_elements                                *)

\* The scan of one shape carries shape_text, shape_style (<<>> for None),
\* first_paragraph (0 for None, else the paragraph's position in the shape)
\* and whether a ValueError has left the function.
ScanStart == [text |-> <<>>, style |-> <<>>, first |-> 0, raised |-> FALSE]

\* the body of `for r in runs` for the k-th run on; ptext is paragraph_text
RECURSIVE scan_runs(_, _, _, _)
scan_runs(st, p, k, ptext) ==
    IF st.raised \/ k > Len(p.runs) THEN [st |-> st, ptext |-> ptext]
    ELSE LET r == p.runs[k]
         IN  IF r.text = <<>> THEN scan_runs(st, p, k + 1, ptext)
             ELSE IF st.style = <<>> /\ r.rPr /\ r.sz.present
             THEN \* shape_style is set, then int(rPr.attrib['sz']) is printed
                  scan_runs([st EXCEPT !.style = get_paragraph_style(p),
                                       !.raised = ~r.sz.numeric],
                            p, k + 1, ptext \o r.text)
             ELSE scan_runs(st, p, k + 1, ptext \o r.text)

\* the body of `for p in paragraphs` for the k-th paragraph on
RECURSIVE scan_paragraphs(_, _, _)
scan_paragraphs(st, paras, k) ==
    IF st.raised \/ k > Len(paras) THEN st
    ELSE LET got == scan_runs(st, paras[k], 1, <<>>)
             st1 == got.st
         IN  IF st1.raised THEN st1
             ELSE IF Strip(got.ptext) # <<>>
             THEN scan_paragraphs(
                      [st1 EXCEPT
                          !.first = IF st1.first = 0 THEN k ELSE st1.first,
                          !.text = (IF st1.text # <<>> THEN st1.text \o <<"\n">>
                                    ELSE <<>>) \o Strip(got.ptext)],
                      paras, k + 1)
             ELSE scan_paragraphs(st1, paras, k + 1)

\* the defect "a shape without text yields a block as well"
has_text_always(shape_text) == TRUE

\* `if shape_text.strip():`, the condition for a block
has_text(shape_text) == Strip(shape_text) # <<>>

\* the body of `for shape in shapes` for the k-th p:sp on; the value is the
\* list of blocks, or the record of a raise
RECURSIVE scan_shapes(_, _, _)
scan_shapes(tree, k, found) ==
    IF k > Len(tree) THEN [raised |-> FALSE, blocks |-> found]
    ELSE LET st == scan_paragraphs(ScanStart, tree[k].paras, 1)
         IN  IF st.raised THEN [raised |-> TRUE, blocks |-> <<>>]
             ELSE IF has_text(st.text)
             THEN scan_shapes(tree, k + 1,
                      Append(found,
                          [paragraph |-> st.first,
                           text |-> Strip(st.text),
                           style |-> IF st.style = <<>> /\ st.first # 0
                                     THEN get_paragraph_style(tree[k].paras[st.first])
                                     ELSE st.style,
                           shape |-> k]))
             ELSE scan_shapes(tree, k + 1, found)

find_text_elements(tree) == scan_shapes(tree, 1, <<>>)

----------------------------------------------------------------------------
(* Paragraph Synthesizer: create_translated_paragraphs                     *)

\* one new a:p for one line: a:pPr is copied from original_p with its
\* children (a:endParaRPr is not), a:rPr from the first a:r of original_p
\* with its attributes, sz is shrunk as a translation when the source rPr
\* has one
translated_paragraph(original_p, text) ==
    LET has_r == original_p.runs # <<>>
        r0 == original_p.runs[1]
        new_r ==
            IF has_r /\ r0.rPr
            THEN Run(TRUE,
                     IF r0.sz.present THEN adjust_attr(r0.sz, TRUE) ELSE r0.sz,
                     r0.kern, r0.spc, r0.baseline, text)
            ELSE Run(FALSE, NoAttr, NoAttr, NoAttr, NoAttr, text)
    IN  Para(<<new_r>>, original_p.def_sz, NoAttr)

create_translated_paragraphs(original_p, translated) ==
    LET split_texts == Split(translated)
    IN  [i \in 1..Len(split_texts) |->
            translated_paragraph(original_p, split_texts[i])]

----------------------------------------------------------------------------
(* translate_slide, the loop over the blocks                               *)

\* second pass over the runs of the block's shape: sz, kern, spc, baseline
adjust_shape_run(r) ==
    IF r.rPr
    THEN [r EXCEPT !.sz = adjust_attr(r.sz, FALSE),
                   !.kern = adjust_attr(r.kern, FALSE),
                   !.spc = adjust_attr(r.spc, FALSE),
                   !.baseline = adjust_attr(r.baseline, FALSE)]
    ELSE r

adjust_shape_runs(sp) ==
    [sp EXCEPT !.paras =
        [i \in 1..Len(sp.paras) |->
            [sp.paras[i] EXCEPT !.runs =
                [j \in 1..Len(sp.paras[i].runs) |->
                    adjust_shape_run(sp.paras[i].runs[j])]]]]

\* list.insert(index, x) with a 0-based index
InsertAt(seq, index, x) ==
    SubSeq(seq, 1, Min(index, Len(seq))) \o <<x>>
    \o SubSeq(seq, Min(index, Len(seq)) + 1, Len(seq))

\* the defect "every new paragraph goes right behind the last original"
insert_position_fixed(index, i) == index + 1

\* where the i-th new paragraph (0-based) goes, after the last paragraph
\* at the 0-based position index
insert_position(index, i) == index + 1 + i

\* parent.insert(index + 1 + i, translated_p) for the new paragraphs from
\* the k-th (1-based) on
RECURSIVE insert_paragraphs(_, _, _, _)
insert_paragraphs(children, index, new, k) ==
    IF k > Len(new) THEN children
    ELSE insert_paragraphs(
             InsertAt(children, insert_position(index, k - 1), new[k]),
             index, new, k + 1)

\* one block with a translation: re-segment, synthesize, insert behind the
\* last a:p of the shape (all a:p of a shape are children of its text body)
append_translation(sp, elem, translated) ==
    LET processed == Join(resegment(elem.text, translated), <<"\n">>)
        new == create_translated_paragraphs(sp.paras[elem.paragraph], processed)
    IN  [sp EXCEPT !.paras = insert_paragraphs(sp.paras, Len(sp.paras) - 1, new, 1)]

----------------------------------------------------------------------------
(* Auto-Fit Normalizer: set_auto_fit on a tree of simple shapes and group   *)
(* shapes                                                                  *)

BodyAttrNames == {"w", "h", "wrap", "rtlCol", "anchor", "anchorCtr"}

\* _set_shape_auto_fit: only a shape with an a:txBody below it is touched
set_shape_auto_fit(sp) ==
    IF sp.body.ns = "a"
    THEN [sp EXCEPT !.body =
            Body("a", TRUE, <<"spAutoFit">>,
                 [n \in BodyAttrNames |->
                     CASE n = "w" -> ""
                       [] n = "h" -> ""
                       [] n = "wrap" -> "square"
                       [] n = "rtlCol" -> "0"
                       [] n = "anchor" -> "ctr"
                       [] n = "anchorCtr" -> "1"])]
    ELSE sp

\* An attribute of a:xfrm: absent, or present with a value (which may be
\* the empty string)
NoVal == [present |-> FALSE, val |-> ""]

Val(v) == [present |-> TRUE, val |-> v]

XfrmAttrNames == {"off", "ext", "chOff", "chExt", "cx", "cy"}

\* p:grpSp: grpSpPr says whether it has a p:grpSpPr child, xfrm whether
\* that has an a:xfrm child, attrs maps the names of the a:xfrm's
\* attributes to their values, children are the p:sp and p:grpSp elements
\* below it in document order
Group(grpSpPr, xfrm, attrs, children) ==
    [grpSpPr |-> grpSpPr, xfrm |-> xfrm, attrs |-> attrs,
     children |-> children]

IsGroup(node) == "children" \in DOMAIN node

\* xfrm.get(name, '')
get_attr(attr) == IF attr.present THEN attr.val ELSE ""

\* the defect "the saved value is set back even when there was none"
restore_attr_always(attr, original) == Val(original)

\* if original: xfrm.set(name, original)
restore_attr(attr, original) == IF original # "" THEN Val(original) ELSE attr

\* the body of the loop over the group shapes, up to the recursion: cx and
\* cy are deleted, the four saved values are set back
normalize_group(grp) ==
    IF grp.grpSpPr /\ grp.xfrm
    THEN [grp EXCEPT !.attrs =
            [n \in XfrmAttrNames |->
                IF n \in {"cx", "cy"} THEN NoVal
                ELSE restore_attr(grp.attrs[n], get_attr(grp.attrs[n]))]]
    ELSE grp

\* for sp in parent_element.findall(".//p:sp"): every simple shape below
RECURSIVE fit_all_shapes(_)
fit_all_shapes(nodes) ==
    [i \in 1..Len(nodes) |->
        IF IsGroup(nodes[i])
        THEN [nodes[i] EXCEPT !.children = fit_all_shapes(@)]
        ELSE set_shape_auto_fit(nodes[i])]

\* process_shapes(parent_element): the simple shapes below it, then every
\* group shape below it in document order, each normalised and handed to
\* process_shapes again (so a nested group is visited once for every group
\* around it and once more for the root)
RECURSIVE process_shapes(_)
RECURSIVE visit_groups(_)
process_shapes(nodes) == visit_groups(fit_all_shapes(nodes))

visit_groups(nodes) ==
    [i \in 1..Len(nodes) |->
        IF IsGroup(nodes[i])
        THEN LET grp == normalize_group(nodes[i])
             IN  [grp EXCEPT !.children = visit_groups(process_shapes(@))]
        ELSE nodes[i]]

set_auto_fit(tree) == process_shapes(tree)

----------------------------------------------------------------------------
(* translate_slide on one slide file.  The slides are drawn from the sets  *)
(* below: one or two simple shapes (no group shapes), one or two           *)
(* paragraphs, one or two runs.  translator_func is any callable: its      *)
(* reply is any text of up to MaxReplyLen characters, or the reply of the  *)
(* end-to-end scenario; an empty reply makes the loop skip the block.      *)

MaxReplyLen == 2

Hello == <<"H", "e", "l", "l", "o">>

World == <<"W", "o", "r", "l", "d">>

BonjourMonde ==
    <<"B", "o", "n", "j", "o", "u", "r", "\n", "M", "o", "n", "d", "e">>

ReplyAlphabet == {"a", " ", "\n"}

Replies == StringsUpTo(ReplyAlphabet, MaxReplyLen) \cup {BonjourMonde}

RunTexts == {<<>>, Hello, World, <<" ">>, <<" ", "a", " ">>}

\* <<sz, kern, spc, baseline>> of an a:rPr
RunAttrChoices ==
    {<<NoAttr, NoAttr, NoAttr, NoAttr>>,
     <<Num(2400), NoAttr, NoAttr, NoAttr>>,
     <<Num(2400), Num(1200), Num(300), Num(30000)>>,
     <<Num(1150), NonNumeric, NoAttr, Num(0 - 25000)>>,
     <<Num(400), NoAttr, NoAttr, NoAttr>>,
     <<NonNumeric, NoAttr, NoAttr, NoAttr>>}

SlideRuns ==
    {Run(FALSE, NoAttr, NoAttr, NoAttr, NoAttr, t) : t \in RunTexts}
    \cup {Run(TRUE, a[1], a[2], a[3], a[4], t) : a \in RunAttrChoices, t \in RunTexts}

\* <<def_sz, end_sz>> of an a:p
ParaAttrChoices ==
    {<<NoAttr, NoAttr>>, <<Num(1100), NonNumeric>>, <<NonNumeric, Num(350)>>}

\* p:sp keeps its text in p:txBody; a:txBody is what _set_shape_auto_fit
\* looks for
BodyP ==
    Body("p", TRUE, <<"normAutofit">>,
         [n \in BodyAttrNames |-> IF n = "wrap" THEN "none" ELSE ""])

BodyA ==
    Body("a", TRUE, <<"noAutofit", "normAutofit">>,
         [n \in BodyAttrNames |-> IF n \in {"w", "h"} THEN "100" ELSE ""])

\* <<ph_sz, body>> of a p:sp
FrameChoices == {<<NoAttr, BodyP>>, <<NonNumeric, BodyP>>, <<Num(2000), BodyA>>}

OneRunParas ==
    {Para(<<r>>, a[1], a[2]) : r \in SlideRuns, a \in ParaAttrChoices}

PlainRun(sz, text) == Run(TRUE, sz, NoAttr, NoAttr, NoAttr, text)

TwoRunParas ==
    {Para(<<r1, r2>>, NoAttr, NoAttr) :
        r1 \in {PlainRun(NonNumeric, <<>>), PlainRun(NoAttr, <<"a", " ">>),
                Run(FALSE, NoAttr, NoAttr, NoAttr, NoAttr, <<" ">>)},
        r2 \in {PlainRun(Num(2400), Hello), PlainRun(NonNumeric, <<"b">>),
                PlainRun(Num(1150), <<>>)}}

\* the paragraphs of the shapes that have two
PairParas ==
    {Para(<<PlainRun(Num(2400), Hello)>>, NoAttr, NoAttr),
     Para(<<PlainRun(Num(2400), World)>>, NoAttr, NoAttr),
     Para(<<PlainRun(Num(3200), <<>>)>>, NoAttr, NoAttr),
     Para(<<>>, NoAttr, Num(1800)),
     Para(<<Run(FALSE, NoAttr, NoAttr, NoAttr, NoAttr, <<" ", "a", " ">>)>>,
          Num(1100), NoAttr)}

OneParaShapes ==
    {Shape(<<p>>, f[1], f[2]) : p \in OneRunParas \cup TwoRunParas, f \in FrameChoices}

TwoParaShapes ==
    {Shape(<<p1, p2>>, NoAttr, BodyP) : p1 \in PairParas, p2 \in PairParas}

\* the shapes of the slides that have two
PairShapes ==
    {Shape(<<p>>, NoAttr, BodyP) : p \in PairParas}
    \cup {Shape(<<Para(<<PlainRun(Num(2400), Hello)>>, NoAttr, NoAttr),
                   Para(<<PlainRun(Num(2400), World)>>, NoAttr, NoAttr)>>,
                 NoAttr, BodyA),
           Shape(<<>>, NoAttr, BodyP)}

Slides ==
    {<<sp>> : sp \in OneParaShapes \cup TwoParaShapes}
    \cup {<<sp1, sp2>> : sp1 \in PairShapes, sp2 \in PairShapes}

Init ==
    /\ pc = "start"
    /\ input_file \in Slides
    /\ slide_file = input_file
    /\ root = <<>>
    /\ text_elements = <<>>
    /\ elem_i = 0
    /\ calls = <<>>
    /\ IdleExceptSlide

\* ET.parse and the first pass over every element with an sz attribute
ParseAndAdjust ==
    /\ pc = "start"
    /\ root' = adjust_size_elements(slide_file)
    /\ pc' = "find"
    /\ UNCHANGED <<input_file, slide_file, text_elements, elem_i, calls>>
    /\ UNCHANGED exceptSlide

\* find_text_elements(root); a ValueError leaves translate_slide
FindTextElements ==
    /\ pc = "find"
    /\ LET got == find_text_elements(root)
       IN  IF got.raised
           THEN pc' = "raised" /\ UNCHANGED <<text_elements, elem_i>>
           ELSE pc' = "loop" /\ text_elements' = got.blocks /\ elem_i' = 1
    /\ UNCHANGED <<input_file, slide_file, root, calls>>
    /\ UNCHANGED exceptSlide

\* one turn of `for elem in text_elements`
TranslateBlock ==
    /\ pc = "loop"
    /\ elem_i <= Len(text_elements)
    /\ \E reply \in Replies :
          LET elem == text_elements[elem_i]
              sp == adjust_shape_runs(root[elem.shape])
          IN  /\ root' = [root EXCEPT ![elem.shape] =
                              IF reply = <<>> THEN sp
                              ELSE append_translation(sp, elem, reply)]
              /\ calls' = Append(calls, [shape |-> elem.shape,
                                         text |-> elem.text,
                                         reply |-> reply])
    /\ elem_i' = elem_i + 1
    /\ UNCHANGED <<pc, input_file, slide_file, text_elements>>
    /\ UNCHANGED exceptSlide

\* translator_func raises at a block: the sizes of the block's shape were
\* already stepped down, nothing catches the exception in translate_slide
TranslatorRaises ==
    /\ pc = "loop"
    /\ elem_i <= Len(text_elements)
    /\ LET elem == text_elements[elem_i]
       IN  root' = [root EXCEPT ![elem.shape] = adjust_shape_runs(root[elem.shape])]
    /\ pc' = "call_raised"
    /\ UNCHANGED <<input_file, slide_file, text_elements, elem_i, calls>>
    /\ UNCHANGED exceptSlide

\* set_auto_fit(root) after the last block
SetAutoFit ==
    /\ pc = "loop"
    /\ elem_i > Len(text_elements)
    /\ root' = set_auto_fit(root)
    /\ pc' = "write"
    /\ UNCHANGED <<input_file, slide_file, text_elements, elem_i, calls>>
    /\ UNCHANGED exceptSlide

\* the defect "the file is saved after every block as well"
WriteSlideEveryBlock ==
    /\ pc \in {"loop", "write"}
    /\ slide_file' = root
    /\ pc' = IF pc = "write" THEN "written" ELSE pc
    /\ UNCHANGED <<input_file, root, text_elements, elem_i, calls>>
    /\ UNCHANGED exceptSlide

\* tree.write(slide_path)
WriteSlide ==
    /\ pc = "write"
    /\ slide_file' = root
    /\ pc' = "written"
    /\ UNCHANGED <<input_file, root, text_elements, elem_i, calls>>
    /\ UNCHANGED exceptSlide

Next ==
    \/ ParseAndAdjust
    \/ FindTextElements
    \/ TranslateBlock
    \/ TranslatorRaises
    \/ SetAutoFit
    \/ WriteSlide

Spec == Init /\ [][Next]_vars

\* the slide of the end-to-end scenario: one shape, "Hello" and "World" at
\* sz=2400
ScenarioSlide ==
    <<Shape(<<Para(<<PlainRun(Num(2400), Hello)>>, NoAttr, NoAttr),
              Para(<<PlainRun(Num(2400), World)>>, NoAttr, NoAttr)>>,
            NoAttr, BodyP)>>

\* the paragraphs a shape of the written slide has beyond those of the input
Appended(s) ==
    SubSeq(slide_file[s].paras, Len(input_file[s].paras) + 1,
           Len(slide_file[s].paras))

\* the texts of the runs of a paragraph, put together
ParaText(p) == Concat([i \in 1..Len(p.runs) |-> p.runs[i].text])

\* the ladder value n rungs below the ladder value v (n small enough)
RungsBelow(v, n) ==
    ppt_font_sizes[(CHOOSE i \in 1..Len(ppt_font_sizes) : ppt_font_sizes[i] = v) + n]

\* C1 as stated: where the runs of a shape all carry sz=2400, the written
\* slide has the original runs at the ladder value two rungs below (1800)
\* and the runs of the appended paragraphs two further rungs below (1400).
C1_Original ==
    pc = "written" =>
        \A s \in 1..Len(input_file) :
            LET before == input_file[s].paras
            IN  (/\ before # <<>>
                 /\ \A p \in 1..Len(before) :
                        /\ before[p].runs # <<>>
                        /\ \A r \in 1..Len(before[p].runs) :
                               before[p].runs[r].rPr
                               /\ before[p].runs[r].sz = Num(2400))
                =>
                (/\ \A p \in 1..Len(before) : \A r \in 1..Len(before[p].runs) :
                        slide_file[s].paras[p].runs[r].sz
                            = Num(100 * RungsBelow(24, 2))
                 /\ \A p \in 1..Len(Appended(s)) :
                        Appended(s)[p].runs[1].sz = Num(100 * RungsBelow(24, 4)))

\* C2 as stated: for the one-shape slide "Hello\nWorld" whose translator
\* returns "Bonjour\nMonde", exactly two paragraphs are appended, reading
\* "Bonjour" and "Monde" in that order.
C2_Original ==
    (/\ pc = "written"
     /\ input_file = ScenarioSlide
     /\ Len(calls) = 1
     /\ calls[1].text = Hello \o <<"\n">> \o World
     /\ calls[1].reply = BonjourMonde)
    =>
    [p \in 1..Len(Appended(1)) |-> ParaText(Appended(1)[p])]
        = <<SubSeq(BonjourMonde, 1, 7), SubSeq(BonjourMonde, 9, 13)>>

\* C3 as stated: on the original paragraphs translate_slide changes nothing
\* but sz: their number and order, the number of their runs, every run's
\* text and its kern, spc and baseline are those of the input.
C3_Original ==
    pc = "written" =>
        \A s \in 1..Len(input_file) :
            LET before == input_file[s].paras
                after == slide_file[s].paras
            IN  /\ Len(after) >= Len(before)
                /\ \A p \in 1..Len(before) :
                       /\ Len(after[p].runs) = Len(before[p].runs)
                       /\ \A r \in 1..Len(before[p].runs) :
                              /\ after[p].runs[r].text = before[p].runs[r].text
                              /\ after[p].runs[r].rPr = before[p].runs[r].rPr
                              /\ after[p].runs[r].kern = before[p].runs[r].kern
                              /\ after[p].runs[r].spc = before[p].runs[r].spc
                              /\ after[p].runs[r].baseline
                                     = before[p].runs[r].baseline

\* the calls that gave the shape s a translation
Translated(s) ==
    {k \in 1..Len(calls) : calls[k].shape = s /\ calls[k].reply # <<>>}

\* C4: every block with a non-empty translation gets exactly one group of
\* new paragraphs, in its own shape, right behind the shape's last existing
\* paragraph and in the order of the translated lines; a shape gets nothing
\* from another shape's block.
C4_OneGroupBehindTheLast ==
    pc \in {"loop", "write", "written"} =>
        /\ \A k \in 1..Len(calls) :
               /\ calls[k].shape = text_elements[k].shape
               /\ calls[k].text = text_elements[k].text
        /\ \A s \in 1..Len(root) :
               LET before == input_file[s].paras
                   after == root[s].paras
                   group == SubSeq(after, Len(before) + 1, Len(after))
                   group_texts == [p \in 1..Len(group) |-> ParaText(group[p])]
               IN  /\ Cardinality(Translated(s)) <= 1
                   /\ Len(after) >= Len(before)
                   /\ \A p \in 1..Len(before) :
                          ParaText(after[p]) = ParaText(before[p])
                   /\ Translated(s) = {} => group = <<>>
                   /\ \A k \in Translated(s) :
                          /\ group # <<>>
                          /\ group_texts = Split(Join(resegment(calls[k].text,
                                                          calls[k].reply),
                                                <<"\n">>))
                          /\ NonBlank(Concat(group_texts)) = NonBlank(calls[k].reply)

C4_Witness ==
    /\ pc = "written"
    /\ Len(slide_file) = 2
    /\ Len(calls) = 2
    /\ calls[1].reply = <<"a", " ">>
    /\ calls[2].reply = BonjourMonde
    /\ Len(input_file[2].paras) = 2
    /\ Len(slide_file[1].paras) = Len(input_file[1].paras) + 1
    /\ Len(slide_file[2].paras) = Len(input_file[2].paras) + 4

\* the numeric sz attributes of a tree
SizesOf(tree) ==
    UNION {
        {tree[s].ph_sz}
        \cup UNION {
            {tree[s].paras[p].def_sz, tree[s].paras[p].end_sz}
            \cup {tree[s].paras[p].runs[r].sz :
                    r \in 1..Len(tree[s].paras[p].runs)}
            : p \in 1..Len(tree[s].paras)}
        : s \in 1..Len(tree)}

\* C5: in a written slide every sz attribute that is a number, on an
\* original element or on a run of a translation, is 100 times a value of
\* the ladder, so never below 500.
C5_SizesOnLadder ==
    pc = "written" =>
        \A a \in SizesOf(slide_file) :
            a.present /\ a.numeric =>
                /\ \E v \in LadderValues : a.val = 100 * v
                /\ a.val >= 100 * min_font_size

C5_Witness ==
    /\ pc = "written"
    /\ \E s \in 1..Len(input_file) :
          /\ Appended(s) # <<>>
          /\ Appended(s)[1].runs[1].sz.numeric
          /\ \E a \in SizesOf(input_file) :
                a.numeric /\ \A v \in LadderValues : a.val # 100 * v

\* what C9 says find_text_elements returns for a tree: one block per shape
\* with non-whitespace text, the paragraph texts joined by a line break, the
\* paragraphs without text dropped
C9_ShapeText(sp) ==
    Join(SelectSeq([p \in 1..Len(sp.paras) |-> ParaText(sp.paras[p])],
                   LAMBDA t : t # <<>>),
         <<"\n">>)

C9_Blocks(tree) ==
    LET all == [s \in 1..Len(tree) |->
                   [shape |-> s, text |-> C9_ShapeText(tree[s])]]
    IN  SelectSeq(all, LAMBDA b : NonBlank(b.text) # <<>>)

\* C9 as stated: find_text_elements returns, for every slide, exactly one
\* block per shape with non-whitespace text, in document order, whose text
\* is the shape's paragraph texts joined by single line breaks.
C9_Original ==
    /\ pc # "raised"
    /\ pc \in {"loop", "write", "written"} =>
          [k \in 1..Len(text_elements) |->
              [shape |-> text_elements[k].shape, text |-> text_elements[k].text]]
          = C9_Blocks(input_file)

----------------------------------------------------------------------------
(* get_next_smaller_size on its own, over every size of 0..MaxCentiPoints *)

MaxCentiPoints == 7400

InitSize ==
    /\ pc = "size_call"
    /\ current_size \in 0..MaxCentiPoints
    /\ next_size = 0
    /\ IdleExceptSize

CallNextSmaller ==
    /\ pc = "size_call"
    /\ next_size' = get_next_smaller_size(current_size)
    /\ pc' = "size_done"
    /\ UNCHANGED <<current_size, exceptSize>>

NextSize == CallNextSmaller

SpecSize == InitSize /\ [][NextSize]_vars

\* C6 as stated: for every size s, get_next_smaller_size(s) is a ladder value
\* or the floor, and it is at most s.
C6_Original ==
    pc = "size_done" =>
        /\ next_size \in LadderValues \cup {min_font_size}
        /\ 100 * next_size <= current_size

\* C6 as amended: for every size s, get_next_smaller_size(s) is a ladder
\* value (so at least the floor of 5 pt), and it is at most s whenever s is
\* at least the floor; for a size below the floor the result is the floor.
C6_NextSmallerOnLadder ==
    pc = "size_done" =>
        /\ next_size \in LadderValues
        /\ next_size >= min_font_size
        /\ current_size >= 100 * min_font_size => 100 * next_size <= current_size
        /\ current_size < 100 * min_font_size => next_size = min_font_size

C6_Witness ==
    /\ pc = "size_done"
    /\ current_size = 575
    /\ next_size = 5

----------------------------------------------------------------------------
(* The re-segmentation on its own, over every original text the extractor  *)
(* can yield and every non-empty translation within the bounds             *)

MaxOrigLen == 4

MaxTransLen == 4

OrigAlphabet == {"a", " ", "\n"}

TransAlphabet == {"a", " ", ".", "\n"}

\* find_text_elements strips the block's text and drops a block without any
BlockTexts ==
    {o \in StringsUpTo(OrigAlphabet, MaxOrigLen) : o # <<>> /\ Strip(o) = o}

InitReseg ==
    /\ pc = "reseg_call"
    /\ original_text \in BlockTexts
    /\ translated_text \in StringsUpTo(TransAlphabet, MaxTransLen) \ {<<>>}
    /\ translated_lines = <<>>
    /\ IdleExceptReseg

CallResegment ==
    /\ pc = "reseg_call"
    /\ translated_lines' = resegment(original_text, translated_text)
    /\ pc' = "reseg_done"
    /\ UNCHANGED <<original_text, translated_text, exceptReseg>>

NextReseg == CallResegment

SpecReseg == InitReseg /\ [][NextReseg]_vars

\* C7 as stated: the lines of the re-segmentation, concatenated in order
\* without a separator, are the translation: no character is dropped.
C7_Original ==
    pc = "reseg_done" => Concat(translated_lines) = translated_text

\* C7 as amended: the lines, concatenated in order, are the translation
\* with nothing but whitespace removed (each span is stripped and a span
\* left empty is dropped): no other character is dropped, duplicated or
\* moved; the successive break positions never decrease; no line is empty or
\* starts or ends with whitespace.
C7_LinesKeepTheText ==
    pc = "reseg_done" =>
        LET cuts == break_positions(translated_text, line_breaks(original_text),
                                    1, Len(original_text))
        IN  /\ NonBlank(Concat(translated_lines)) = NonBlank(translated_text)
            /\ Len(Concat(translated_lines)) <= Len(translated_text)
            /\ \A i \in 1..Len(translated_lines) :
                   /\ translated_lines[i] # <<>>
                   /\ Strip(translated_lines[i]) = translated_lines[i]
            /\ \A i \in 1..(Len(cuts) - 1) : cuts[i] <= cuts[i + 1]
            /\ \A i \in 1..Len(cuts) : cuts[i] <= Len(translated_text)

C7_Witness ==
    /\ pc = "reseg_done"
    /\ Len(translated_lines) >= 2
    /\ Concat(translated_lines) # translated_text
    /\ NonBlank(translated_text) # translated_text

----------------------------------------------------------------------------
(* get_paragraph_style on its own, over paragraphs of up to MaxStyleRuns   *)
(* runs with every mix of absent, unparsable and distinct sizes            *)

MaxStyleRuns == 2

RunSizeChoices == {NoAttr, NonNumeric, Num(1800), Num(230)}

StyleRuns ==
    {Run(FALSE, NoAttr, NoAttr, NoAttr, NoAttr, <<"a">>)}
    \cup {Run(TRUE, sz, NoAttr, NoAttr, NoAttr, <<"a">>) : sz \in RunSizeChoices}

StyleParas ==
    {Para(runs, def_sz, end_sz) :
        runs \in UNION {[1..n -> StyleRuns] : n \in 0..MaxStyleRuns},
        def_sz \in {NoAttr, NonNumeric, Num(1200)},
        end_sz \in {NoAttr, NonNumeric, Num(3200)}}

\* a translation of one line and one of two lines
TranslatedTexts == {<<"a">>, <<"a", "b", "\n", "c">>}

InitStyle ==
    /\ pc = "style_call"
    /\ p_element \in StyleParas
    /\ style = <<>>
    /\ translation \in TranslatedTexts
    /\ paragraphs = <<>>
    /\ IdleExceptStyle

CallGetParagraphStyle ==
    /\ pc = "style_call"
    /\ style' = get_paragraph_style(p_element)
    /\ pc' = "style_done"
    /\ UNCHANGED <<p_element, translation, paragraphs, exceptStyle>>

\* create_translated_paragraphs with the same paragraph as its reference
CallCreateTranslatedParagraphs ==
    /\ pc = "style_done"
    /\ paragraphs' = create_translated_paragraphs(p_element, translation)
    /\ pc' = "paragraphs_done"
    /\ UNCHANGED <<p_element, style, translation, exceptStyle>>

NextStyle ==
    \/ CallGetParagraphStyle
    \/ CallCreateTranslatedParagraphs

SpecStyle == InitStyle /\ [][NextStyle]_vars

Usable(attr) == attr.present /\ attr.numeric

\* the runs of p whose own rPr declares a size that parses
SizedRuns(p) == {i \in 1..Len(p.runs) : p.runs[i].rPr /\ Usable(p.runs[i].sz)}

\* the size as get_paragraph_style hands it on: through points and back
Resolved(size) == point_to_size(size_to_point(size))

\* C8: the size is resolved in a fixed order and the first match wins: the
\* first run in document order whose own rPr declares a usable size, else
\* the paragraph's pPr/defRPr size, else its endParaRPr size; a lower level
\* counts only when no higher level declares a usable size, and a run size
\* of 1800 wins over a paragraph default of 1200.
C8_FirstMatchWins ==
    pc = "style_done" =>
        LET p == p_element
            sized == SizedRuns(p)
        IN  /\ sized # {} =>
                  \E i \in sized :
                      /\ \A j \in sized : i <= j
                      /\ style.font_size = Resolved(p.runs[i].sz.val)
            /\ sized = {} /\ Usable(p.def_sz) =>
                  style.font_size = Resolved(p.def_sz.val)
            /\ sized = {} /\ ~Usable(p.def_sz) /\ Usable(p.end_sz) =>
                  style.font_size = Resolved(p.end_sz.val)
            /\ (\E i \in sized : p.runs[i].sz = Num(1800) /\ \A j \in sized : i <= j)
                  /\ p.def_sz = Num(1200) => style.font_size = 1800

C8_Witness ==
    /\ pc = "style_done"
    /\ Len(p_element.runs) = 2
    /\ p_element.runs[1].sz = NonNumeric
    /\ p_element.runs[2].sz = Num(1800)
    /\ p_element.def_sz = Num(1200)
    /\ p_element.end_sz = Num(3200)
    /\ style.font_size = 1800


----------------------------------------------------------------------------
(* OllamaTranslator: clean_translation, translate and batch_translate.     *)
(* A response of the service is a sequence of tokens: one-character        *)
(* strings, Han for one CJK character, NotePrefix for the prefix "note:"   *)
(* and separator for the batch separator.                                  *)

separator == "|||"

Han == "U+4E2D"

Quote == "\""

NotePrefix == "note:"

\* str.strip(chars)
RECURSIVE StripChars(_, _)
StripChars(s, chars) ==
    IF s = <<>> THEN s
    ELSE IF Head(s) \in chars THEN StripChars(Tail(s), chars)
    ELSE IF s[Len(s)] \in chars THEN StripChars(SubSeq(s, 1, Len(s) - 1), chars)
    ELSE s

\* str.split(separator)
RECURSIVE SplitOn(_, _)
SplitOn(s, sep) ==
    LET i == Find(s, sep, 0)
    IN  IF i = -1 THEN <<s>>
        ELSE <<Slice(s, 0, i)>> \o SplitOn(Slice(s, i + 1, Len(s)), sep)

\* str.lower()
Lower(s) == [i \in 1..Len(s) |-> IF s[i] = "A" THEN "a" ELSE s[i]]

\* ' '.join(text.split())
RECURSIVE CollapseSpaces(_)
CollapseSpaces(s) ==
    LET t == Strip(s)
    IN  IF t = <<>> THEN t
        ELSE IF Len(t) > 1 /\ t[2] \in Whitespace
             THEN <<Head(t), " ">> \o CollapseSpaces(Tail(t))
        ELSE <<Head(t)>> \o CollapseSpaces(Tail(t))

\* the characters of one token that the filter of the direction keeps
keep_chars(c, from, to) ==
    IF from = "zh" /\ to = "en"
    THEN IF c = Han THEN <<>> ELSE <<c>>
    ELSE IF from = "en" /\ to = "zh"
    THEN IF c \in {Han, " ", ":"} THEN <<c>>
         ELSE IF c = NotePrefix THEN <<":">>
         ELSE <<>>
    ELSE <<c>>

RECURSIVE filter_chars(_, _, _)
filter_chars(s, from, to) ==
    IF s = <<>> THEN s
    ELSE keep_chars(Head(s), from, to) \o filter_chars(Tail(s), from, to)

\* strip; drop a leading prefix; strip quotes; lower-case and strip (the
\* explanations loop); filter by direction; collapse the whitespace
clean_translation(text, from, to) ==
    IF text = <<>> THEN text
    ELSE LET stripped == Strip(text)
             unprefixed ==
                 IF stripped # <<>> /\ Head(stripped) = NotePrefix
                 THEN Strip(Tail(stripped))
                 ELSE stripped
             unquoted == StripChars(unprefixed, {Quote})
             lowered == Strip(Lower(unquoted))
             filtered == filter_chars(lowered, from, to)
         IN  Strip(CollapseSpaces(filtered))

PlaceholderPrefix ==
    <<"[", "T", "r", "a", "n", "s", "l", "a", "t", "i", "o", "n", " ",
      "E", "r", "r", "o", "r", " ", "f", "o", "r", ":", " ">>

\* the defect "a failed translation is an empty string"
Placeholder_empty(text) == <<>>

\* f"[Translation Error for: {text}]"
Placeholder(text) == PlaceholderPrefix \o text \o <<"]">>

\* the outcome of one POST: it failed, or the service answered
Failed == [ok |-> FALSE, response |-> <<>>]

Answered(response) == [ok |-> TRUE, response |-> response]

\* the defect "the cleaned reply is returned even when it is blank"
translate_unguarded(text, outcome, from, to) ==
    IF Strip(text) = <<>> THEN text
    ELSE IF ~outcome.ok THEN Placeholder(text)
    ELSE clean_translation(Strip(outcome.response), from, to)

\* translate(text): no request for a blank text; the placeholder when the
\* request fails or the cleaned reply is blank
translate(text, outcome, from, to) ==
    IF Strip(text) = <<>> THEN text
    ELSE IF ~outcome.ok THEN Placeholder(text)
    ELSE LET cleaned_text ==
                 clean_translation(Strip(outcome.response), from, to)
         IN  IF Strip(cleaned_text) # <<>> THEN cleaned_text
             ELSE Placeholder(text)

\* translations = [t.strip() for t in translated_text.split(separator)
\*                 if t.strip()]
RECURSIVE strip_fragments(_)
strip_fragments(parts) ==
    IF parts = <<>> THEN <<>>
    ELSE (IF Strip(Head(parts)) # <<>> THEN <<Strip(Head(parts))>> ELSE <<>>)
         \o strip_fragments(Tail(parts))

split_translations(response) ==
    strip_fragments(SplitOn(Strip(response), separator))

\* the loop over the fragments from the i-th (1-based) on: a fragment that
\* cleans to blank becomes the placeholder of the text at its own index, or
\* nothing when there is no such text
RECURSIVE clean_fragments(_, _, _, _, _)
clean_fragments(translations, i, txts, from, to) ==
    IF i > Len(translations) THEN <<>>
    ELSE LET cleaned_text == clean_translation(translations[i], from, to)
             kept ==
                 IF Strip(cleaned_text) # <<>> THEN <<cleaned_text>>
                 ELSE IF i <= Len(txts) THEN <<Placeholder(txts[i])>>
                 ELSE <<>>
         IN  kept \o clean_fragments(translations, i + 1, txts, from, to)


----------------------------------------------------------------------------
(* batch_translate on its own: every list of up to MaxBatch texts, every   *)
(* direction, every outcome of the batch request and of the single         *)
(* requests that follow it                                                 *)

MaxBatch == 2

MaxResponseLen == 4

MaxSingleLen == 1

TextChoices == {<<"a">>, <<"b">>, <<" ">>}

BatchTexts == UNION {[1..n -> TextChoices] : n \in 0..MaxBatch}

Languages == {"zh", "en"}

SingleAlphabet == {"a", "A", " ", Quote, Han, NotePrefix}

BatchResponses == StringsUpTo(SingleAlphabet \cup {separator}, MaxResponseLen)

SingleOutcomes ==
    {Failed} \cup {Answered(r) : r \in StringsUpTo(SingleAlphabet, MaxSingleLen)}

InitBatch ==
    /\ pc = "batch_call"
    /\ texts \in BatchTexts
    /\ from_lang \in Languages
    /\ to_lang \in Languages
    /\ cleaned_translations = <<>>
    /\ single_translations = <<>>
    /\ batch_result = <<>>
    /\ IdleExceptBatch

\* if not texts: return []
BatchOfNothing ==
    /\ pc = "batch_call"
    /\ texts = <<>>
    /\ batch_result' = <<>>
    /\ pc' = "batch_returned"
    /\ UNCHANGED <<texts, from_lang, to_lang, cleaned_translations,
                   single_translations>>
    /\ UNCHANGED exceptBatch

\* the batch request is answered: split, clean, and return unless the list
\* is shorter than texts
BatchAnswered ==
    /\ pc = "batch_call"
    /\ texts # <<>>
    /\ \E response \in BatchResponses :
           LET cleaned == clean_fragments(split_translations(response), 1,
                                          texts, from_lang, to_lang)
           IN  /\ cleaned_translations' = cleaned
               /\ IF Len(cleaned) < Len(texts)
                  THEN pc' = "batch_backfill" /\ UNCHANGED batch_result
                  ELSE pc' = "batch_returned" /\ batch_result' = cleaned
    /\ UNCHANGED <<texts, from_lang, to_lang, single_translations>>
    /\ UNCHANGED exceptBatch

\* one turn of the while loop: translate(texts[idx]) is appended, and the
\* list is returned once it is as long as texts
BackfillOne ==
    /\ pc = "batch_backfill"
    /\ \E outcome \in SingleOutcomes :
           LET idx == Len(cleaned_translations) + 1
               longer == Append(cleaned_translations,
                                translate(texts[idx], outcome,
                                          from_lang, to_lang))
           IN  /\ cleaned_translations' = longer
               /\ IF Len(longer) < Len(texts)
                  THEN pc' = "batch_backfill" /\ UNCHANGED batch_result
                  ELSE pc' = "batch_returned" /\ batch_result' = longer
    /\ UNCHANGED <<texts, from_lang, to_lang, single_translations>>
    /\ UNCHANGED exceptBatch

\* the batch request raises: the except branch starts over, text by text
BatchFailed ==
    /\ pc = "batch_call"
    /\ texts # <<>>
    /\ pc' = "batch_fallback"
    /\ UNCHANGED batchVars
    /\ UNCHANGED exceptBatch

\* one item of [self.translate(text, ...) for text in texts], returned
\* after the last
FallbackOne ==
    /\ pc = "batch_fallback"
    /\ \E outcome \in SingleOutcomes :
           LET idx == Len(single_translations) + 1
               longer == Append(single_translations,
                                translate(texts[idx], outcome,
                                          from_lang, to_lang))
           IN  /\ single_translations' = longer
               /\ IF Len(longer) < Len(texts)
                  THEN pc' = "batch_fallback" /\ UNCHANGED batch_result
                  ELSE pc' = "batch_returned" /\ batch_result' = longer
    /\ UNCHANGED <<texts, from_lang, to_lang, cleaned_translations>>
    /\ UNCHANGED exceptBatch

NextBatch ==
    \/ BatchOfNothing
    \/ BatchAnswered
    \/ BackfillOne
    \/ BatchFailed
    \/ FallbackOne

SpecBatch == InitBatch /\ [][NextBatch]_vars

\* C10 as stated: whatever the service answers, batch_translate given N
\* non-empty texts returns a list of exactly N strings, never shorter and
\* never longer than the input.
C10_Original ==
    (pc = "batch_returned" /\ \A i \in 1..Len(texts) : texts[i] # <<>>)
        => Len(batch_result) = Len(texts)

----------------------------------------------------------------------------
(* batch_translate against a service that translates faithfully but may    *)
(* leave out, or leave blank, the fragment of any input: the answer to the *)
(* batch request is the fragments it did produce, joined by the separator  *)

\* what the service makes of a text: a text of its own for each input
Rendering(text, to) ==
    IF to = "zh"
    THEN IF text = <<"a">> THEN <<Han>> ELSE <<Han, Han>>
    ELSE <<"t">> \o text

ContentTexts == {<<"a">>, <<"b">>}

OrderTexts == UNION {[1..n -> ContentTexts] : n \in 1..MaxBatch}

FragmentMarks == {"kept", "blank", "missing"}

\* the fragments of the inputs from the i-th on, in input order
RECURSIVE service_fragments(_, _, _, _)
service_fragments(txts, marks, to, i) ==
    IF i > Len(txts) THEN <<>>
    ELSE (IF marks[i] = "kept" THEN <<Rendering(txts[i], to)>>
          ELSE IF marks[i] = "blank" THEN <<<<" ">>>>
          ELSE <<>>)
         \o service_fragments(txts, marks, to, i + 1)

service_response(txts, marks, to) ==
    Join(service_fragments(txts, marks, to, 1), <<separator>>)

\* the outcomes of a single request for a text
FaithfulOutcomes(text, to) == {Failed, Answered(Rendering(text, to))}

InitOrder ==
    /\ pc = "order_call"
    /\ texts \in OrderTexts
    /\ from_lang \in Languages
    /\ to_lang \in Languages
    /\ cleaned_translations = <<>>
    /\ single_translations = <<>>
    /\ batch_result = <<>>
    /\ IdleExceptBatch

\* the batch request is answered (lines 207-244, up to the first single
\* request)
OrderAnswered ==
    /\ pc = "order_call"
    /\ \E marks \in [1..Len(texts) -> FragmentMarks] :
           LET response == service_response(texts, marks, to_lang)
               cleaned == clean_fragments(split_translations(response), 1,
                                          texts, from_lang, to_lang)
           IN  /\ cleaned_translations' = cleaned
               /\ IF Len(cleaned) < Len(texts)
                  THEN pc' = "order_backfill" /\ UNCHANGED batch_result
                  ELSE pc' = "order_returned" /\ batch_result' = cleaned
    /\ UNCHANGED <<texts, from_lang, to_lang, single_translations>>
    /\ UNCHANGED exceptBatch

\* one turn of the while loop (lines 239-244)
OrderBackfill ==
    /\ pc = "order_backfill"
    /\ LET idx == Len(cleaned_translations) + 1
       IN  \E outcome \in FaithfulOutcomes(texts[idx], to_lang) :
               LET longer == Append(cleaned_translations,
                                    translate(texts[idx], outcome,
                                              from_lang, to_lang))
               IN  /\ cleaned_translations' = longer
                   /\ IF Len(longer) < Len(texts)
                      THEN pc' = "order_backfill" /\ UNCHANGED batch_result
                      ELSE pc' = "order_returned" /\ batch_result' = longer
    /\ UNCHANGED <<texts, from_lang, to_lang, single_translations>>
    /\ UNCHANGED exceptBatch

\* the batch request raises (lines 246-248)
OrderFailed ==
    /\ pc = "order_call"
    /\ pc' = "order_fallback"
    /\ UNCHANGED batchVars
    /\ UNCHANGED exceptBatch

\* one item of the per-item fallback (line 251)
OrderFallback ==
    /\ pc = "order_fallback"
    /\ LET idx == Len(single_translations) + 1
       IN  \E outcome \in FaithfulOutcomes(texts[idx], to_lang) :
               LET longer == Append(single_translations,
                                    translate(texts[idx], outcome,
                                              from_lang, to_lang))
               IN  /\ single_translations' = longer
                   /\ IF Len(longer) < Len(texts)
                      THEN pc' = "order_fallback" /\ UNCHANGED batch_result
                      ELSE pc' = "order_returned" /\ batch_result' = longer
    /\ UNCHANGED <<texts, from_lang, to_lang, cleaned_translations>>
    /\ UNCHANGED exceptBatch

NextOrder ==
    \/ OrderAnswered
    \/ OrderBackfill
    \/ OrderFailed
    \/ OrderFallback

SpecOrder == InitOrder /\ [][NextOrder]_vars

\* C11 as stated: the i-th string batch_translate returns is the
\* translation of the i-th text, or its placeholder, also when the answer
\* to the batch request lacks or leaves blank the fragment of some input.
C11_Original ==
    pc = "order_returned" =>
        /\ Len(batch_result) = Len(texts)
        /\ \A i \in 1..Len(texts) :
               batch_result[i] \in {Rendering(texts[i], to_lang),
                                    Placeholder(texts[i])}

----------------------------------------------------------------------------
(* translate on its own: every text of up to MaxTextLen characters, every  *)
(* direction, and every outcome of its request                             *)

MaxTextLen == 2

MaxReplyTokens == 3

TranslateTexts == StringsUpTo({"a", " ", Han}, MaxTextLen)

\* the request raises (transport error, error status, a body that is not
\* JSON), or it returns a response
TranslateOutcomes ==
    {Failed}
    \cup {Answered(r) : r \in StringsUpTo(SingleAlphabet, MaxReplyTokens)}

InitTranslate ==
    /\ pc = "translate_call"
    /\ translate_text \in TranslateTexts
    /\ from_lang \in Languages
    /\ to_lang \in Languages
    /\ translate_outcome = <<>>
    /\ translate_result = <<>>
    /\ texts = <<>>
    /\ cleaned_translations = <<>>
    /\ single_translations = <<>>
    /\ batch_result = <<>>
    /\ IdleSize
    /\ IdleReseg
    /\ IdleStyle
    /\ IdleSlide
    /\ IdlePptx
    /\ IdleFile
    /\ IdleUi

CallTranslate ==
    /\ pc = "translate_call"
    /\ \E outcome \in TranslateOutcomes :
           /\ translate_outcome' = outcome
           /\ translate_result' =
                  translate(translate_text, outcome, from_lang, to_lang)
    /\ pc' = "translate_returned"
    /\ UNCHANGED <<translate_text, exceptTranslate>>

NextTranslate == CallTranslate

SpecTranslate == InitTranslate /\ [][NextTranslate]_vars

\* text occurs in s as a run of consecutive characters
Contains(s, text) ==
    \E k \in 0..(Len(s) - Len(text)) : SubSeq(s, k + 1, k + Len(text)) = text

\* the cleaned reply of the request is blank
CleansToBlank(outcome) ==
    Strip(clean_translation(Strip(outcome.response), from_lang, to_lang))
        = <<>>

\* C12: translate given a text with non-whitespace content returns a string
\* that is not blank; when the request failed or the cleaned reply is
\* blank, the string is the marked placeholder, which contains the text.
C12_NeverBlank ==
    (pc = "translate_returned" /\ Strip(translate_text) # <<>>) =>
        /\ Strip(translate_result) # <<>>
        /\ (~translate_outcome.ok \/ CleansToBlank(translate_outcome)) =>
               /\ translate_result = Placeholder(translate_text)
               /\ SubSeq(translate_result, 1, Len(PlaceholderPrefix))
                      = PlaceholderPrefix
               /\ Contains(translate_result, translate_text)

\* the service answered with quotes around a blank, which cleans to nothing
C12_Witness ==
    /\ pc = "translate_returned"
    /\ translate_text = <<"a">>
    /\ translate_outcome = Answered(<<Quote, " ", Quote>>)
    /\ translate_result = Placeholder(<<"a">>)

----------------------------------------------------------------------------
(* translate_pptx_file and translate_pptx: the package is extracted, each  *)
(* slide of the directory goes through translate_slide with                *)
(* OllamaTranslator.translate as its translator, the result is compressed  *)

MaxSlides == 2

\* a slide file that ET.parse rejects
Malformed == <<[error |-> "not well-formed"]>>

TextShape(sz, lines) ==
    Shape([i \in 1..Len(lines) |->
              Para(<<PlainRun(sz, lines[i])>>, NoAttr, NoAttr)],
          NoAttr, BodyP)

SlideFiles ==
    {<<TextShape(Num(2400), <<<<"a">>>>)>>,
     <<TextShape(Num(2400), <<<<"a">>, <<"b">>>>), TextShape(NoAttr, <<<<"b">>>>)>>,
     <<TextShape(Num(1150), <<<<" ">>>>)>>,
     <<TextShape(NonNumeric, <<<<"a">>>>)>>,
     Malformed}

Directories == UNION {[1..n -> SlideFiles] : n \in 0..MaxSlides}

\* the orders in which os.listdir can return n slide files
Listings(n) ==
    {order \in [1..n -> 1..n] : \A i, j \in 1..n : i # j => order[i] # order[j]}

\* the outcomes of the request of translate for a block
PptxOutcomes ==
    {Failed}
    \cup {Answered(r) :
              r \in StringsUpTo(SingleAlphabet \ {NotePrefix}, MaxSingleLen)}

\* the variables translate_pptx leaves alone
pptxFrame ==
    <<input_file, slide_file, texts, cleaned_translations,
      single_translations, batch_result, sizeVars, resegVars, styleVars,
      translateVars, uiVars>>

\* the file at the output path: none, a file that was there before the
\* call, or the package compress_to_pptx wrote
Absent == [kind |-> "absent", content |-> <<>>]

OldFile == [kind |-> "old", content |-> <<>>]

Package(dir) == [kind |-> "package", content |-> dir]

\* the defect "a file at the output path survives a failure"
remove_if_exists_kept(file) == file

\* if os.path.exists(output_pptx): os.remove(output_pptx)
remove_if_exists(file) == Absent

\* the defect "the temp directories are left behind"
rmtree_skipped(dir) == dir

\* shutil.rmtree of a temp directory that was made
rmtree(dir) == IF dir = "exists" THEN "removed" ELSE dir

InitPptx ==
    /\ pc = "file_call"
    /\ temp_dir = "none"
    /\ temp_output_dir = "none"
    /\ output_pptx \in {Absent, OldFile}
    /\ input_dir \in Directories
    /\ from_lang \in Languages
    /\ to_lang \in Languages
    /\ output_dir = <<>>
    /\ slides = <<>>
    /\ slide_no = 0
    /\ progress = <<>>
    /\ written = <<>>
    /\ slide_calls = [k \in 1..Len(input_dir) |-> <<>>]
    /\ texts = <<>>
    /\ cleaned_translations = <<>>
    /\ single_translations = <<>>
    /\ batch_result = <<>>
    /\ IdleSize
    /\ IdleReseg
    /\ IdleStyle
    /\ IdleSlide
    /\ IdleTranslate
    /\ IdleUi

\* translate_pptx_file up to the call of translate_pptx: extract_pptx,
\* which removes its directory and raises when the input is no zip archive,
\* and mkdtemp for the translated directory; on the failure the handlers
\* of translate_pptx_file run
ExtractPptx ==
    /\ pc = "file_call"
    /\ \E ok \in BOOLEAN :
           IF ok
           THEN /\ temp_dir' = "exists"
                /\ temp_output_dir' = "exists"
                /\ pc' = "pptx_call"
                /\ UNCHANGED output_pptx
           ELSE /\ temp_dir' = "none"
                /\ temp_output_dir' = "none"
                /\ output_pptx' = remove_if_exists(output_pptx)
                /\ pc' = "file_raised"
    /\ UNCHANGED pptxVars
    /\ UNCHANGED <<root, text_elements, elem_i, calls, from_lang, to_lang>>
    /\ UNCHANGED pptxFrame

\* the defect "the slides are counted from 0"
callback_args_from_zero(i, total_slides) == <<i - 1, total_slides>>

\* progress_callback(i, total_slides) for i of enumerate(slides, 1)
callback_args(i, total_slides) == <<i, total_slides>>

\* prepare_output_dir and os.listdir; no slide, no loop
PreparePptx ==
    /\ pc = "pptx_call"
    /\ output_dir' = input_dir
    /\ \E order \in Listings(Len(input_dir)) : slides' = order
    /\ IF input_dir = <<>>
       THEN pc' = "pptx_returned" /\ slide_no' = 0
       ELSE pc' = "pptx_open" /\ slide_no' = 1
    /\ UNCHANGED <<input_dir, progress, written, slide_calls>>
    /\ UNCHANGED <<root, text_elements, elem_i, calls, from_lang, to_lang>>
    /\ UNCHANGED pptxFrame
    /\ UNCHANGED fileVars

\* translate_slide up to its loop: ET.parse, the first pass and
\* find_text_elements; what they raise leaves translate_pptx
OpenSlide ==
    /\ pc = "pptx_open"
    /\ LET file == output_dir[slides[slide_no]]
           adjusted == adjust_size_elements(file)
           got == find_text_elements(adjusted)
       IN  IF file = Malformed
           THEN pc' = "pptx_raised" /\ UNCHANGED <<root, text_elements, elem_i>>
           ELSE IF got.raised
           THEN /\ pc' = "pptx_raised"
                /\ root' = adjusted
                /\ UNCHANGED <<text_elements, elem_i>>
           ELSE /\ pc' = "pptx_loop"
                /\ root' = adjusted
                /\ text_elements' = got.blocks
                /\ elem_i' = 1
    /\ calls' = <<>>
    /\ UNCHANGED <<from_lang, to_lang>>
    /\ UNCHANGED pptxVars
    /\ UNCHANGED pptxFrame
    /\ UNCHANGED fileVars

\* one turn of the loop over the blocks, with the request of translate
PptxTranslateBlock ==
    /\ pc = "pptx_loop"
    /\ elem_i <= Len(text_elements)
    /\ \E outcome \in PptxOutcomes :
          LET elem == text_elements[elem_i]
              sp == adjust_shape_runs(root[elem.shape])
              reply == translate(elem.text, outcome, from_lang, to_lang)
          IN  /\ root' = [root EXCEPT ![elem.shape] =
                              IF reply = <<>> THEN sp
                              ELSE append_translation(sp, elem, reply)]
              /\ calls' = Append(calls, [shape |-> elem.shape,
                                         text |-> elem.text,
                                         ok |-> outcome.ok,
                                         reply |-> reply])
    /\ elem_i' = elem_i + 1
    /\ UNCHANGED <<pc, text_elements, from_lang, to_lang>>
    /\ UNCHANGED pptxVars
    /\ UNCHANGED pptxFrame
    /\ UNCHANGED fileVars

\* set_auto_fit, tree.write and progress_callback; then the next slide of
\* the listing
CloseSlide ==
    /\ pc = "pptx_loop"
    /\ elem_i > Len(text_elements)
    /\ LET k == slides[slide_no]
       IN  /\ output_dir' = [output_dir EXCEPT ![k] = set_auto_fit(root)]
           /\ written' = Append(written, k)
           /\ slide_calls' = [slide_calls EXCEPT ![k] = calls]
    /\ progress' = Append(progress, callback_args(slide_no, Len(slides)))
    /\ IF slide_no < Len(slides)
       THEN pc' = "pptx_open" /\ slide_no' = slide_no + 1
       ELSE pc' = "pptx_returned" /\ UNCHANGED slide_no
    /\ UNCHANGED <<input_dir, slides>>
    /\ UNCHANGED <<root, text_elements, elem_i, calls, from_lang, to_lang>>
    /\ UNCHANGED pptxFrame
    /\ UNCHANGED fileVars

\* translate_pptx returned: compress_to_pptx, which removes what it wrote
\* and raises when it fails; then the handlers of translate_pptx_file
CompressPptx ==
    /\ pc = "pptx_returned"
    /\ \E ok \in BOOLEAN :
           IF ok
           THEN /\ output_pptx' = Package(output_dir)
                /\ pc' = "file_returned"
           ELSE /\ output_pptx' = remove_if_exists(output_pptx)
                /\ pc' = "file_raised"
    /\ temp_dir' = rmtree(temp_dir)
    /\ temp_output_dir' = rmtree(temp_output_dir)
    /\ UNCHANGED pptxVars
    /\ UNCHANGED <<root, text_elements, elem_i, calls, from_lang, to_lang>>
    /\ UNCHANGED pptxFrame

\* translate_pptx raised: the except and finally of translate_pptx_file
AbortFile ==
    /\ pc = "pptx_raised"
    /\ output_pptx' = remove_if_exists(output_pptx)
    /\ temp_dir' = rmtree(temp_dir)
    /\ temp_output_dir' = rmtree(temp_output_dir)
    /\ pc' = "file_raised"
    /\ UNCHANGED pptxVars
    /\ UNCHANGED <<root, text_elements, elem_i, calls, from_lang, to_lang>>
    /\ UNCHANGED pptxFrame

NextPptx ==
    \/ ExtractPptx
    \/ PreparePptx
    \/ OpenSlide
    \/ PptxTranslateBlock
    \/ CloseSlide
    \/ CompressPptx
    \/ AbortFile

SpecPptx == InitPptx /\ [][NextPptx]_vars

\* the blocks translate_slide extracts from a slide file
BlocksOf(file) == find_text_elements(adjust_size_elements(file)).blocks

\* the paragraphs a written shape has behind those it had in the input
GroupOf(k, s) ==
    SubSeq(output_dir[k][s].paras, Len(input_dir[k][s].paras) + 1,
           Len(output_dir[k][s].paras))

GroupText(k, s) ==
    Concat([p \in 1..Len(GroupOf(k, s)) |-> ParaText(GroupOf(k, s)[p])])

\* C13: translate_pptx raises only for a slide file that does not parse or
\* whose extraction raises, never because translation requests failed; in
\* every slide it has written, each extracted block was sent to translate
\* once and its shape has an appended group of paragraphs holding the
\* reply, which for a failed request is the marked placeholder with the
\* block's text.
C13_NoBlockDropped ==
    /\ pc = "pptx_raised" =>
           /\ calls = <<>>
           /\ \/ output_dir[slides[slide_no]] = Malformed
              \/ find_text_elements(adjust_size_elements(
                     output_dir[slides[slide_no]])).raised
    /\ pc = "pptx_returned" => Len(written) = Len(input_dir)
    /\ \A j \in 1..Len(written) :
           LET k == written[j]
               blocks == BlocksOf(input_dir[k])
               cs == slide_calls[k]
           IN  /\ Len(cs) = Len(blocks)
               /\ \A c \in 1..Len(blocks) :
                      /\ cs[c].text = blocks[c].text
                      /\ cs[c].shape = blocks[c].shape
                      /\ ~cs[c].ok => cs[c].reply = Placeholder(blocks[c].text)
                      /\ GroupOf(k, blocks[c].shape) # <<>>
                      /\ NonBlank(cs[c].reply) # <<>>
                      /\ NonBlank(GroupText(k, blocks[c].shape))
                             = NonBlank(cs[c].reply)

\* both slides written, the first with a failed and an answered request
C13_Witness ==
    /\ pc = "pptx_returned"
    /\ Len(written) = 2
    /\ \E k \in 1..2 :
           /\ Len(slide_calls[k]) = 2
           /\ ~slide_calls[k][1].ok
           /\ slide_calls[k][2].ok
           /\ slide_calls[k][2].reply = <<"a">>
           /\ Len(GroupOf(k, 1)) > 1

----------------------------------------------------------------------------
(* claims about translate_slide, continued                                 *)

\* C14 as stated: a size attribute with a non-numeric value, on a run's
\* rPr as on any other element, never makes translate_slide raise, and it
\* is in the written slide as it was in the input.
C14_Original ==
    /\ pc # "raised"
    /\ pc = "written" =>
           \A s \in 1..Len(input_file) :
               /\ input_file[s].ph_sz = NonNumeric
                      => slide_file[s].ph_sz = NonNumeric
               /\ \A p \in 1..Len(input_file[s].paras) :
                      \A r \in 1..Len(input_file[s].paras[p].runs) :
                          input_file[s].paras[p].runs[r].sz = NonNumeric
                              => slide_file[s].paras[p].runs[r].sz = NonNumeric

\* C15 as stated: in the written slide every shape with a text body has
\* exactly one spAutoFit marker and no other auto-fit marker under its
\* bodyPr, no w and no h, and wrap="square", rtlCol="0", anchor="ctr".
C15_Original ==
    pc = "written" =>
        \A s \in 1..Len(slide_file) :
            LET body == slide_file[s].body
            IN  /\ body.bodyPr
                /\ body.fit = <<"spAutoFit">>
                /\ body.attrs["w"] = ""
                /\ body.attrs["h"] = ""
                /\ body.attrs["wrap"] = "square"
                /\ body.attrs["rtlCol"] = "0"
                /\ body.attrs["anchor"] = "ctr"

----------------------------------------------------------------------------
(* translate_slide on a slide with group shapes, nested up to MaxDepth     *)
(* deep.  root.findall(".//p:sp") is the simple shapes in document order,  *)
(* whatever groups are around them.                                        *)

MaxDepth == 2

\* the simple shapes below nodes, in document order
RECURSIVE shapes_of(_)
shapes_of(nodes) ==
    IF nodes = <<>> THEN <<>>
    ELSE (IF IsGroup(Head(nodes)) THEN shapes_of(Head(nodes).children)
          ELSE <<Head(nodes)>>)
         \o shapes_of(Tail(nodes))

\* nodes with its simple shapes replaced, in document order, by those of
\* shapes from the k-th on
RECURSIVE with_shapes(_, _, _)
with_shapes(nodes, shapes, k) ==
    IF nodes = <<>> THEN <<>>
    ELSE LET n == Head(nodes)
             here == IF IsGroup(n) THEN Len(shapes_of(n.children)) ELSE 1
             first == IF IsGroup(n)
                      THEN [n EXCEPT !.children = with_shapes(@, shapes, k)]
                      ELSE shapes[k]
         IN  <<first>> \o with_shapes(Tail(nodes), shapes, k + here)

\* the group shapes below nodes, in document order
RECURSIVE groups_of(_)
groups_of(nodes) ==
    IF nodes = <<>> THEN <<>>
    ELSE (IF IsGroup(Head(nodes))
          THEN <<Head(nodes)>> \o groups_of(Head(nodes).children)
          ELSE <<>>)
         \o groups_of(Tail(nodes))

XfrmAttrs(off, ext, chOff, chExt, cx, cy) ==
    [n \in XfrmAttrNames |->
        CASE n = "off" -> off [] n = "ext" -> ext [] n = "chOff" -> chOff
          [] n = "chExt" -> chExt [] n = "cx" -> cx [] n = "cy" -> cy]

NoXfrmAttrs == XfrmAttrs(NoVal, NoVal, NoVal, NoVal, NoVal, NoVal)

\* <<grpSpPr, xfrm, attrs>> of a p:grpSp
GroupFrames ==
    {<<FALSE, FALSE, NoXfrmAttrs>>,
     <<TRUE, FALSE, NoXfrmAttrs>>,
     <<TRUE, TRUE,
       XfrmAttrs(Val("1"), Val("2"), Val("3"), Val("4"), Val("5"), Val("6"))>>,
     <<TRUE, TRUE,
       XfrmAttrs(NoVal, Val(""), Val("0"), NoVal, Val("5"), NoVal)>>}

GroupLeaves ==
    {TextShape(Num(2400), <<<<"a">>>>),
     Shape(<<Para(<<PlainRun(Num(1150), <<"b">>)>>, NoAttr, NoAttr)>>,
           NonNumeric, BodyA)}

\* a simple shape, or a group around one node or around a simple shape
\* and a node, the groups nested up to depth deep
RECURSIVE GroupNodes(_)
GroupNodes(depth) ==
    IF depth = 0 THEN GroupLeaves
    ELSE GroupLeaves
         \cup {Group(f[1], f[2], f[3], <<c>>) :
                  f \in GroupFrames, c \in GroupNodes(depth - 1)}
         \cup {Group(f[1], f[2], f[3], <<l, c>>) :
                  f \in GroupFrames, l \in GroupLeaves,
                  c \in GroupNodes(depth - 1)}

GroupSlides == {<<n>> : n \in GroupNodes(MaxDepth)}

FitReplies == {<<>>, <<"a", " ", "a">>}

InitFit ==
    /\ pc = "fit_start"
    /\ input_file \in GroupSlides
    /\ slide_file = input_file
    /\ root = <<>>
    /\ text_elements = <<>>
    /\ elem_i = 0
    /\ calls = <<>>
    /\ IdleExceptSlide

\* ET.parse, the first pass and find_text_elements
FitOpen ==
    /\ pc = "fit_start"
    /\ LET adjusted == adjust_size_elements(shapes_of(slide_file))
           got == find_text_elements(adjusted)
       IN  /\ root' = with_shapes(slide_file, adjusted, 1)
           /\ IF got.raised
              THEN pc' = "fit_raised" /\ UNCHANGED <<text_elements, elem_i>>
              ELSE /\ pc' = "fit_loop"
                   /\ text_elements' = got.blocks
                   /\ elem_i' = 1
    /\ UNCHANGED <<input_file, slide_file, calls>>
    /\ UNCHANGED exceptSlide

\* one turn of the loop over the blocks
FitTranslateBlock ==
    /\ pc = "fit_loop"
    /\ elem_i <= Len(text_elements)
    /\ \E reply \in FitReplies :
          LET elem == text_elements[elem_i]
              flat == shapes_of(root)
              sp == adjust_shape_runs(flat[elem.shape])
              done == IF reply = <<>> THEN sp
                      ELSE append_translation(sp, elem, reply)
          IN  /\ root' = with_shapes(root,
                                     [flat EXCEPT ![elem.shape] = done], 1)
              /\ calls' = Append(calls, [shape |-> elem.shape,
                                         text |-> elem.text,
                                         reply |-> reply])
    /\ elem_i' = elem_i + 1
    /\ UNCHANGED <<pc, input_file, slide_file, text_elements>>
    /\ UNCHANGED exceptSlide

\* set_auto_fit(root) and tree.write(slide_path)
FitClose ==
    /\ pc = "fit_loop"
    /\ elem_i > Len(text_elements)
    /\ root' = set_auto_fit(root)
    /\ slide_file' = set_auto_fit(root)
    /\ pc' = "fit_written"
    /\ UNCHANGED <<input_file, text_elements, elem_i, calls>>
    /\ UNCHANGED exceptSlide

NextFit ==
    \/ FitOpen
    \/ FitTranslateBlock
    \/ FitClose

SpecFit == InitFit /\ [][NextFit]_vars

\* C16: in the written slide every group shape, at any depth, is where it
\* was; its a:xfrm has neither cx nor cy, and off, ext, chOff and chExt
\* are as they were in the input: present with the same value, or absent.
C16_GroupTransformKept ==
    pc = "fit_written" =>
        LET before == groups_of(input_file)
            after == groups_of(slide_file)
        IN  /\ Len(after) = Len(before)
            /\ \A g \in 1..Len(before) :
                   /\ after[g].grpSpPr = before[g].grpSpPr
                   /\ after[g].xfrm = before[g].xfrm
                   /\ ~after[g].attrs["cx"].present
                   /\ ~after[g].attrs["cy"].present
                   /\ \A n \in {"off", "ext", "chOff", "chExt"} :
                          after[g].attrs[n] = before[g].attrs[n]

\* a group inside a group, the inner one with cx, an empty ext and no off,
\* and a translation appended to a shape inside it
C16_Witness ==
    /\ pc = "fit_written"
    /\ Len(groups_of(input_file)) = 2
    /\ groups_of(input_file)[2].attrs["cx"] = Val("5")
    /\ groups_of(input_file)[2].attrs["ext"] = Val("")
    /\ ~groups_of(input_file)[2].attrs["off"].present
    /\ groups_of(input_file)[1].attrs["cy"] = Val("6")
    /\ \E k \in 1..Len(calls) : calls[k].reply # <<>>
    /\ ~groups_of(slide_file)[2].attrs["cx"].present

----------------------------------------------------------------------------
(* claims about translate_pptx, continued                                  *)

\* C17 as stated: the slides are processed in ascending slide-index order,
\* each one written before the next is started, whatever order the
\* directory listing has.
C17_Original ==
    /\ \A i, j \in 1..Len(written) : i < j => written[i] < written[j]
    /\ pc \in {"pptx_open", "pptx_loop"} =>
           \A i \in 1..Len(written) : written[i] < slides[slide_no]


----------------------------------------------------------------------------
(* claims about translate_pptx_file                                        *)

\* the listed position of the first slide file that does not parse, or 0
FirstMalformed ==
    IF \E q \in 1..Len(slides) : input_dir[slides[q]] = Malformed
    THEN CHOOSE q \in 1..Len(slides) :
             /\ input_dir[slides[q]] = Malformed
             /\ \A r \in 1..(q - 1) : input_dir[slides[r]] # Malformed
    ELSE 0

\* C18: a slide file that does not parse is not skipped: translate_slide
\* raises at it, translate_pptx goes on to no later slide of the listing and
\* raises, and translate_pptx_file raises with no file at the output path;
\* a package exists only after a run in which every slide file was parsed.
C18_ParseFailureAborts ==
    /\ FirstMalformed > 0 =>
           /\ slide_no <= FirstMalformed
           /\ \A j \in 1..Len(written) :
                  \E r \in 1..(FirstMalformed - 1) : written[j] = slides[r]
           /\ pc \notin {"pptx_returned", "file_returned"}
           /\ output_pptx.kind # "package"
    /\ pc = "pptx_raised" => slide_no > 0
    /\ pc = "file_raised" => output_pptx = Absent
    /\ output_pptx.kind = "package" => pc = "file_returned"

\* the second listed slide does not parse: the first was written, a file
\* that was at the output path is gone, translate_pptx_file has raised
C18_Witness ==
    /\ pc = "file_raised"
    /\ FirstMalformed = 2
    /\ slide_no = 2
    /\ written = <<slides[1]>>
    /\ output_pptx = Absent
    /\ temp_dir = "removed"


----------------------------------------------------------------------------
(* claims about translate_slide: the write                                 *)

\* C19: translate_slide writes the slide file once, as its last step, after
\* the first pass, the extraction, every translation call with its
\* insertion and the auto-fit pass; until then, and for good when a step
\* has raised, the file equals the input slide.
C19_WriteOnceAtEnd ==
    /\ [](pc # "written" => slide_file = input_file)
    /\ [](pc \in {"write", "written"} =>
              /\ elem_i = Len(text_elements) + 1
              /\ Len(calls) = Len(text_elements))
    /\ [](pc = "written" => slide_file = root)
    /\ [][slide_file' # slide_file => pc = "write" /\ pc' = "written"]_vars
    /\ [][pc' = "written" => pc = "write" /\ root' = root]_vars
    /\ [][(pc = "raised" \/ pc = "call_raised") => slide_file' = slide_file]_vars

\* translator_func raised at the second block: the tree in memory already
\* holds the first block's translation, the file is the input slide
C19_Witness ==
    /\ pc = "call_raised"
    /\ Len(calls) = 1
    /\ calls[1].reply # <<>>
    /\ root # input_file
    /\ slide_file = input_file


----------------------------------------------------------------------------
(* claims about create_translated_paragraphs                               *)

\* C20 as stated: every run create_translated_paragraphs makes has an
\* explicit size, adjust_font_size(r, is_translation = True) for the size r
\* that get_paragraph_style resolves for the reference paragraph, whichever
\* level supplied r; its text is the line of the translation.
C20_Original ==
    pc = "paragraphs_done" =>
        /\ Len(paragraphs) = Len(Split(translation))
        /\ \A i \in 1..Len(paragraphs) :
               /\ Len(paragraphs[i].runs) = 1
               /\ paragraphs[i].runs[1].text = Split(translation)[i]
               /\ paragraphs[i].runs[1].rPr
               /\ paragraphs[i].runs[1].sz
                      = Num(adjust_font_size(style.font_size, TRUE))


----------------------------------------------------------------------------
(* claims about find_text_elements                                         *)

\* C21 as stated: the reference paragraph of every block find_text_elements
\* returns is the first paragraph of the shape with non-empty text, and the
\* block's style is what get_paragraph_style resolves for that paragraph.
C21_Original ==
    (pc = "loop" /\ elem_i = 1) =>
        \A b \in 1..Len(text_elements) :
            LET elem == text_elements[b]
                paras == root[elem.shape].paras
            IN  /\ elem.paragraph \in 1..Len(paras)
                /\ Strip(ParaText(paras[elem.paragraph])) # <<>>
                /\ \A j \in 1..(elem.paragraph - 1) :
                       Strip(ParaText(paras[j])) = <<>>
                /\ elem.style = get_paragraph_style(paras[elem.paragraph])


----------------------------------------------------------------------------
(* claims about get_paragraph_style, continued                             *)

\* C22: get_paragraph_style returns a style with a font size for every
\* paragraph, also one with no size at any level and one whose sizes are
\* unparsable at every level; with no usable size it returns 1400, the
\* ladder value two rungs below 18 points; the paragraph is left as it was.
C22_TotalWithDefault ==
    /\ [](pc \in {"style_done", "paragraphs_done"} =>
              /\ DOMAIN style = {"font_size"}
              /\ style.font_size \in Nat
              /\ (/\ SizedRuns(p_element) = {}
                  /\ ~Usable(p_element.def_sz)
                  /\ ~Usable(p_element.end_sz)) =>
                     /\ style.font_size = 1400
                     /\ style.font_size = 100 * RungsBelow(18, 2))
    /\ [][p_element' = p_element]_vars

\* two runs, the paragraph default and endParaRPr all carry a size that
\* does not parse: the default came back
C22_Witness ==
    /\ pc = "style_done"
    /\ Len(p_element.runs) = 2
    /\ \A i \in 1..2 : p_element.runs[i].sz = NonNumeric
    /\ p_element.def_sz = NonNumeric
    /\ p_element.end_sz = NonNumeric
    /\ style.font_size = 1400


----------------------------------------------------------------------------
(* claims about the requests of the pipeline                               *)

\* C23 as stated: the blocks of a slide are translated by one request whose
\* text is all the block texts joined by the separator; a request for a
\* single block is made only as a fallback behind that batch request.
C23_Original ==
    \A j \in 1..Len(written) :
        LET k == written[j]
            blocks == BlocksOf(input_dir[k])
            cs == slide_calls[k]
            batch_text == Join([b \in 1..Len(blocks) |-> blocks[b].text],
                               <<separator>>)
        IN  Len(blocks) >= 2 =>
                /\ cs # <<>>
                /\ cs[1].text = batch_text
                /\ \A c \in 2..Len(cs) :
                       \E b \in 1..Len(blocks) : cs[c].text = blocks[b].text


----------------------------------------------------------------------------
(* claims about translate_pptx: the progress callback                      *)

\* C24: translate_pptx calls the progress callback once for each slide it
\* has written, after the write and before the next slide is opened, with
\* (1, N), (2, N), ... for the N listed slides; a run without failure ends
\* with N calls, and when the k-th slide fails there have been k - 1 calls
\* and none follows.
C24_ProgressAfterEachSlide ==
    /\ [](/\ Len(progress) = Len(written)
          /\ \A i \in 1..Len(progress) : progress[i] = <<i, Len(slides)>>)
    /\ [](pc \in {"pptx_open", "pptx_loop", "pptx_raised"} =>
              Len(progress) = slide_no - 1)
    /\ [](pc = "pptx_returned" => Len(progress) = Len(input_dir))
    /\ [][progress' # progress =>
              /\ pc = "pptx_loop"
              /\ written' = Append(written, slides[slide_no])
              /\ Len(progress') = Len(progress) + 1
              /\ slide_no' = slide_no + 1 \/ pc' = "pptx_returned"]_vars
    /\ [][(pc = "pptx_raised" \/ pc = "file_raised") =>
              progress' = progress]_vars

\* the second of two slides failed: one call, (1, 2), and the run has ended
C24_Witness ==
    /\ pc = "file_raised"
    /\ Len(slides) = 2
    /\ slide_no = 2
    /\ written = <<slides[1]>>
    /\ progress = <<(<<1, 2>>)>>


----------------------------------------------------------------------------
(* claims about the blocks translate_slide works on                        *)

\* C25: every block find_text_elements yields has a text of at least one
\* character with non-whitespace content, so the text translate_slide sends
\* to the translator and divides by in the re-segmentation is never empty.
C25_BlocksHaveText ==
    /\ \A b \in 1..Len(text_elements) :
           /\ Len(text_elements[b].text) >= 1
           /\ NonBlank(text_elements[b].text) # <<>>
           /\ Strip(text_elements[b].text) = text_elements[b].text
    /\ \A c \in 1..Len(calls) :
           /\ Len(calls[c].text) >= 1
           /\ calls[c].text = text_elements[c].text

\* a slide with a shape whose only run has no text and a shape with text:
\* the first gave no block, the second was translated and re-segmented
C25_Witness ==
    /\ pc = "loop"
    /\ Len(calls) = 1
    /\ calls[1].reply # <<>>
    /\ \E s \in 1..Len(input_file) :
           /\ \A b \in 1..Len(text_elements) : text_elements[b].shape # s
           /\ \E q \in 1..Len(input_file[s].paras) :
                  /\ input_file[s].paras[q].runs # <<>>
                  /\ ParaText(input_file[s].paras[q]) = <<>>


----------------------------------------------------------------------------
(* claims about set_auto_fit, continued                                    *)

\* the number of spAutoFit children of the shape's a:bodyPr
Markers(sp) == Len(SelectSeq(sp.body.fit, LAMBDA f : f = "spAutoFit"))

\* C26 as stated: after set_auto_fit every simple shape, also one nested in
\* groups and visited once per enclosing group, has exactly one spAutoFit
\* marker, and set_auto_fit applied again leaves the tree as it is.
C26_Original ==
    pc = "fit_written" =>
        /\ \A s \in 1..Len(shapes_of(slide_file)) :
               Markers(shapes_of(slide_file)[s]) = 1
        /\ set_auto_fit(slide_file) = slide_file


----------------------------------------------------------------------------
(* claims about translate_pptx_file, continued                             *)

\* C27: when translate_pptx_file has returned or raised, neither temp
\* directory exists; when it has raised, whether in the extraction, in a
\* slide or in the compression, there is no file at the output path; the
\* package is written only after every slide was written, from the
\* translated directory.
C27_CleansUp ==
    /\ pc \in {"file_returned", "file_raised"} =>
           /\ temp_dir # "exists"
           /\ temp_output_dir # "exists"
    /\ pc = "file_raised" => output_pptx.kind = "absent"
    /\ pc = "file_returned" => output_pptx.kind = "package"
    /\ output_pptx.kind = "package" =>
           /\ pc = "file_returned"
           /\ Len(written) = Len(input_dir)
           /\ output_pptx.content = output_dir
    /\ temp_output_dir = "exists" => temp_dir = "exists"

\* both slides were written and the compression failed: the directories
\* are removed and nothing is at the output path
C27_Witness ==
    /\ pc = "file_raised"
    /\ Len(input_dir) = 2
    /\ Len(written) = 2
    /\ temp_dir = "removed"
    /\ temp_output_dir = "removed"
    /\ output_pptx.kind = "absent"


----------------------------------------------------------------------------
(* The window and its worker: PPTTranslatorUI.start_translation starts a   *)
(* TranslationWorker thread, whose signals are queued to the slots of the  *)
(* window.  The conversion is seen through what C18, C24 and C27 say of    *)
(* translate_pptx_file: it reports each written slide, then returns or     *)
(* raises.                                                                 *)

MaxUiSlides == 2

\* the items of the model combo box
ModelChoices == {"llama3:8b", "qwen:7b", "qwen:1.8b"}

\* the keys of OllamaTranslator.SUPPORTED_MODELS
SUPPORTED_MODELS == {"qwen:7b", "llama3:8b"}

\* the texts of a path field: empty, or a path
PathTexts == {"", "deck.pptx"}

Signal(name, current, total) ==
    [name |-> name, current |-> current, total |-> total]

TerminalSignals == {"finished", "error"}

InitUi ==
    /\ pc = "ui_ready"
    /\ enabled = TRUE
    /\ model_select \in ModelChoices
    /\ input_path \in PathTexts
    /\ output_path \in PathTexts
    /\ worker = [state |-> "none", total |-> 0, done |-> 0]
    /\ emitted = <<>>
    /\ pending = <<>>
    /\ IdleExceptUi

\* start_translation: the two warnings, setEnabled(False), the
\* PPTXMLTranslator for the chosen model, whose OllamaTranslator raises
\* ValueError for a model it does not support, and the worker's start
StartTranslation ==
    /\ pc = "ui_ready"
    /\ IF input_path = "" \/ output_path = ""
       THEN pc' = "ui_warned" /\ UNCHANGED <<enabled, worker>>
       ELSE IF model_select \notin SUPPORTED_MODELS
       THEN pc' = "ui_raised" /\ enabled' = FALSE /\ UNCHANGED worker
       ELSE /\ pc' = "ui_busy"
            /\ enabled' = FALSE
            /\ worker' = [worker EXCEPT !.state = "started"]
    /\ UNCHANGED <<model_select, input_path, output_path, emitted, pending>>
    /\ UNCHANGED exceptUi

\* TranslationWorker.run up to the call: progress.emit
WorkerBegin ==
    /\ worker.state = "started"
    /\ worker' = [worker EXCEPT !.state = "extracting"]
    /\ emitted' = Append(emitted, Signal("progress", 0, 0))
    /\ pending' = Append(pending, Signal("progress", 0, 0))
    /\ UNCHANGED <<pc, enabled, model_select, input_path, output_path>>
    /\ UNCHANGED exceptUi

\* translate_pptx_file up to the first slide: the extraction raises, or
\* the package has total slides
WorkerExtract ==
    /\ worker.state = "extracting"
    /\ \E ok \in BOOLEAN, total \in 0..MaxUiSlides :
           IF ok
           THEN /\ worker' = [state |-> "slides", total |-> total, done |-> 0]
                /\ UNCHANGED <<emitted, pending>>
           ELSE /\ worker' = [worker EXCEPT !.state = "ended"]
                /\ emitted' = Append(emitted, Signal("error", 0, 0))
                /\ pending' = Append(pending, Signal("error", 0, 0))
    /\ UNCHANGED <<pc, enabled, model_select, input_path, output_path>>
    /\ UNCHANGED exceptUi

\* one slide: it is written and handle_progress emits slide_progress; or
\* it fails and run emits error
WorkerSlide ==
    /\ worker.state = "slides"
    /\ worker.done < worker.total
    /\ \E ok \in BOOLEAN :
           IF ok
           THEN LET i == worker.done + 1
                    sig == Signal("slide_progress", i, worker.total)
                IN  /\ worker' = [worker EXCEPT !.done = i,
                                                !.state = "reporting"]
                    /\ emitted' = Append(emitted, sig)
                    /\ pending' = Append(pending, sig)
           ELSE /\ worker' = [worker EXCEPT !.state = "ended"]
                /\ emitted' = Append(emitted, Signal("error", 0, 0))
                /\ pending' = Append(pending, Signal("error", 0, 0))
    /\ UNCHANGED <<pc, enabled, model_select, input_path, output_path>>
    /\ UNCHANGED exceptUi

\* handle_progress, its second statement: progress.emit for the slide
WorkerReport ==
    /\ worker.state = "reporting"
    /\ LET sig == Signal("progress", worker.done, worker.total)
       IN  /\ emitted' = Append(emitted, sig)
           /\ pending' = Append(pending, sig)
    /\ worker' = [worker EXCEPT !.state = "slides"]
    /\ UNCHANGED <<pc, enabled, model_select, input_path, output_path>>
    /\ UNCHANGED exceptUi

\* after the last slide: the compression, then finished.emit or error.emit
WorkerEnd ==
    /\ worker.state = "slides"
    /\ worker.done = worker.total
    /\ \E ok \in BOOLEAN :
           LET last == Signal(IF ok THEN "finished" ELSE "error", 0, 0)
           IN  /\ emitted' = Append(emitted, last)
               /\ pending' = Append(pending, last)
    /\ worker' = [worker EXCEPT !.state = "ended"]
    /\ UNCHANGED <<pc, enabled, model_select, input_path, output_path>>
    /\ UNCHANGED exceptUi

\* the slot of the oldest queued signal runs in the window's thread:
\* update_progress, update_slide_progress, translation_finished or
\* translation_error, the last two with setEnabled(True)
RunSlot ==
    /\ pending # <<>>
    /\ pending' = Tail(pending)
    /\ IF Head(pending).name \in TerminalSignals
       THEN enabled' = TRUE /\ pc' = "ui_done"
       ELSE UNCHANGED <<pc, enabled>>
    /\ UNCHANGED <<model_select, input_path, output_path, worker, emitted>>
    /\ UNCHANGED exceptUi

NextUi ==
    \/ StartTranslation
    \/ WorkerBegin
    \/ WorkerExtract
    \/ WorkerSlide
    \/ WorkerReport
    \/ WorkerEnd
    \/ RunSlot

SpecUi == InitUi /\ [][NextUi]_vars

\* the worker thread runs on and queued slots are run
SpecUiLive == SpecUi /\ WF_vars(NextUi)

\* the positions of the terminal signals among those emitted
TerminalAt == {i \in 1..Len(emitted) : emitted[i].name \in TerminalSignals}

\* C28 as stated: a worker's run emits exactly one terminal signal, after
\* all its slide_progress signals, and the window that start_translation
\* disabled is enabled again, whichever model of the combo box was chosen
\* and however the conversion ended.
C28_Original ==
    /\ [](Cardinality(TerminalAt) <= 1)
    /\ [](TerminalAt # {} <=> worker.state = "ended")
    /\ [](\A i \in TerminalAt : i = Len(emitted))
    /\ (~enabled ~> enabled)

====
